---- MODULE Spec2Model ----
(***************************************************************************)
(* A model of the evalanche agent SDK's cross-ledger settlement            *)
(* orchestrator (src/avalanche/crosschain.ts, xchain.ts, pchain.ts) and    *)
(* of its key material store (src/wallet/keystore.ts), with the agent's     *)
(* lazily initialised multi-VM methods and the balance query of the UTXO   *)
(* ledgers.                                                                *)
(*                                                                         *)
(* JavaScript runs a call to completion between two awaits, so an action   *)
(* of the model is the code between two awaited network or file            *)
(* operations.  The ledgers and the file system are the environment: a     *)
(* submission may be rejected for any reason, an exported output becomes   *)
(* visible on the destination ledger at a time the code does not control.  *)
(***************************************************************************)
EXTENDS Integers, Sequences, FiniteSets, TLC

\* Bounds of the model.
MaxCalls == 2
MaxAmount == 3
InitBal == 2
MaxSeed == 2
MaxEntropy == 2
MaxKeyOps == 3
MaxCallers == 2
MaxAgentCallers == 2
MaxAgentOps == 2
MaxUtxos == 2
MaxGasPrice == 1
MaxWei == 2
MaxId == 2
TickMs == 150000
MaxTicks == 5
MaxVersion == 1
MaxResolvers == 2
MaxDays == 2
MaxClock == 2
MaxLines == 3

Chains == {"C", "X", "P"}
Calls == 1..MaxCalls
Amounts == 1..MaxAmount
Seeds == 1..MaxSeed
Entropies == 1..MaxEntropy
Callers == 1..MaxCallers

VARIABLES
  bal,      \* bal[l]: the agent's spendable balance on ledger l
  outs,     \* the atomic outputs created by accepted export transactions
  native,   \* the outputs the X and P ledgers hold or held for the agent
  nextTx,   \* the number of the next transaction a ledger accepts
  call,     \* call[c]: the state of the c-th call made by the agent's caller
  ksFile,   \* the keystore record at keystorePath
  entFile,  \* the entropy file at entropyPath
  writable, \* whether the storage directory can be created and written
  kcall,    \* kcall[p]: the keystore operation caller p is running
  khist,    \* what the keystore operations completed so far gave their callers
  kstart,   \* whether a keystore record existed before the first operation
  agent,    \* the Evalanche agent: what it was constructed from, its multi-VM state
  acall,    \* acall[p]: the agent method caller p is running
  ahist,    \* the results the agent methods completed so far gave their callers
  net,      \* the network requests the agent's multi-VM code has made
  providerCache, \* the networks whose provider the module-level cache holds
  up,       \* whether the SDK can make a provider now
  utxos,    \* the unspent outputs a UTXO ledger holds for the agent
  gcall,    \* the getBalance() call in progress, or its outcome
  pay,      \* the payAndFetch call: its position, its options, what it has so far
  http,     \* the HTTP requests payAndFetch sent, in order
  proofs,   \* the payment proofs signed so far
  server,   \* the MCP server: its configuration and its agent
  mreq,     \* the tool call the MCP server is waiting on, if any
  mout,     \* the request the MCP server handled last, with what it wrote back
  now,      \* Date.now(), in milliseconds
  cache,    \* the entry of the resolver's TTLCache under the agent's key
  rcall,    \* rcall[p]: the resolve() call of caller p
  rhist,    \* when resolve() was last called, and when one last cached a result
  chainVal, \* the identity the registries hold on-chain
  env,      \* process.env: AGENT_PRIVATE_KEY and AGENT_MNEMONIC
  scall,    \* the resolveAgentSecrets call: its position and what it has so far
  input,    \* the characters a client writes to the server's stdin, in order
  pos,      \* how many of them have arrived in 'data' events
  buffer,   \* startStdio's buffer: what arrived after the last line break
  handlers, \* the 'data' handlers waiting on a tool call, with their lines left
  stdout    \* the response lines written to stdout, in order

xvars == <<bal, native, outs, nextTx, call>>
kvars == <<ksFile, entFile, writable, kcall, khist, kstart>>
avars == <<agent, acall, ahist, net, providerCache, up>>
bvars == <<utxos, gcall>>
pvars == <<pay, http, proofs>>
mvars == <<server, mreq, mout>>
rvars == <<now, cache, rcall, rhist, chainVal>>
svars == <<env, scall>>
tvars == <<input, pos, buffer, handlers, stdout>>
vars == <<bal, native, outs, nextTx, call, ksFile, entFile, writable, kcall, khist, kstart,
          agent, acall, ahist, net, providerCache, up, utxos, gcall,
          pay, http, proofs,
          server, mreq, mout,
          now, cache, rcall, rhist, chainVal,
          env, scall,
          input, pos, buffer, handlers, stdout>>

----------------------------------------------------------------------------
\* Errors (src/utils/errors.ts) and thrown values.

NoErr == [cls |-> "none", code |-> "none", msg |-> <<>>, cause |-> "none"]

\* new EvalancheError(message, code, cause)
EvalancheError(msg, code, cause) ==
  [cls |-> "EvalancheError", code |-> code, msg |-> msg, cause |-> cause]

\* An Error instance thrown by the SDK, the ledger client, or `new Error(m)`.
RawError(m) == [cls |-> "Error", code |-> "none", msg |-> <<m>>, cause |-> "none"]

\* A thrown value that is not an Error instance.
RawValue(m) == [cls |-> "NonError", code |-> "none", msg |-> <<m>>, cause |-> "none"]

\* error instanceof Error ? error : undefined   (an Error is named by its message)
CauseOf(e) == IF e.cls \in {"Error", "EvalancheError"} THEN e.msg[1] ELSE "none"

\* error instanceof Error ? error.message : String(error)
MessageOf(e) == e.msg[1]

\* What a rejected submission throws: an Error, or some other value.
Rejections == {RawError("rejected by the ledger"), RawValue("rejected by the ledger")}

\* The transaction identifier a ledger assigns.
TxName(n) == "tx" \o ToString(n)

----------------------------------------------------------------------------
\* The ledger primitives the orchestrator composes.

Export(l, d) == [op |-> "export", ledger |-> l, arg |-> d]
Wait == [op |-> "wait", ledger |-> "-", arg |-> "-"]
Import(l, s) == [op |-> "import", ledger |-> l, arg |-> s]

\* Faulty variants of the switch, each differing from it in one arm: the X->P
\* arm imports without the settling wait;
TransferStepsNoWait(from, to) ==
  CASE from = "X" /\ to = "P" -> << Export("X", "P"), Import("P", "X") >>
    [] from = "X" /\ to = "C" -> << Export("X", "C"), Wait, Import("C", "X") >>
    [] from = "P" /\ to = "X" -> << Export("P", "X"), Wait, Import("X", "P") >>
    [] from = "P" /\ to = "C" -> << Export("P", "C"), Wait, Import("C", "P") >>
    [] from = "C" /\ to = "X" -> << Export("C", "X"), Wait, Import("X", "C") >>
    [] from = "C" /\ to = "P" -> << Export("C", "P"), Wait, Import("P", "C") >>
    [] OTHER -> << >>

\* the C->P arm exports with the destination tag of the C->X arm;
TransferStepsWrongTag(from, to) ==
  CASE from = "X" /\ to = "P" -> << Export("X", "P"), Wait, Import("P", "X") >>
    [] from = "X" /\ to = "C" -> << Export("X", "C"), Wait, Import("C", "X") >>
    [] from = "P" /\ to = "X" -> << Export("P", "X"), Wait, Import("X", "P") >>
    [] from = "P" /\ to = "C" -> << Export("P", "C"), Wait, Import("C", "P") >>
    [] from = "C" /\ to = "X" -> << Export("C", "X"), Wait, Import("X", "C") >>
    [] from = "C" /\ to = "P" -> << Export("C", "X"), Wait, Import("P", "C") >>
    [] OTHER -> << >>

\* the P->C arm is missing;
TransferStepsMissingArm(from, to) ==
  CASE from = "X" /\ to = "P" -> << Export("X", "P"), Wait, Import("P", "X") >>
    [] from = "X" /\ to = "C" -> << Export("X", "C"), Wait, Import("C", "X") >>
    [] from = "P" /\ to = "X" -> << Export("P", "X"), Wait, Import("X", "P") >>
    [] from = "C" /\ to = "X" -> << Export("C", "X"), Wait, Import("X", "C") >>
    [] from = "C" /\ to = "P" -> << Export("C", "P"), Wait, Import("P", "C") >>
    [] OTHER -> << >>

\* the P->C arm imports from the source of the X->C arm;
TransferStepsWrongSource(from, to) ==
  CASE from = "X" /\ to = "P" -> << Export("X", "P"), Wait, Import("P", "X") >>
    [] from = "X" /\ to = "C" -> << Export("X", "C"), Wait, Import("C", "X") >>
    [] from = "P" /\ to = "X" -> << Export("P", "X"), Wait, Import("X", "P") >>
    [] from = "P" /\ to = "C" -> << Export("P", "C"), Wait, Import("C", "X") >>
    [] from = "C" /\ to = "X" -> << Export("C", "X"), Wait, Import("X", "C") >>
    [] from = "C" /\ to = "P" -> << Export("C", "P"), Wait, Import("P", "C") >>
    [] OTHER -> << >>

\* the X->P arm waits and imports a second time.
TransferStepsImportAgain(from, to) ==
  CASE from = "X" /\ to = "P" ->
         << Export("X", "P"), Wait, Import("P", "X"), Wait, Import("P", "X") >>
    [] from = "X" /\ to = "C" -> << Export("X", "C"), Wait, Import("C", "X") >>
    [] from = "P" /\ to = "X" -> << Export("P", "X"), Wait, Import("X", "P") >>
    [] from = "P" /\ to = "C" -> << Export("P", "C"), Wait, Import("C", "P") >>
    [] from = "C" /\ to = "X" -> << Export("C", "X"), Wait, Import("X", "C") >>
    [] from = "C" /\ to = "P" -> << Export("C", "P"), Wait, Import("P", "C") >>
    [] OTHER -> << >>

\* The switch of CrossChainTransfer.transfer: the primitives of each direction,
\* in the order the arm awaits them; the default arm has none and throws.
TransferSteps(from, to) ==
  CASE from = "X" /\ to = "P" -> << Export("X", "P"), Wait, Import("P", "X") >>
    [] from = "X" /\ to = "C" -> << Export("X", "C"), Wait, Import("C", "X") >>
    [] from = "P" /\ to = "X" -> << Export("P", "X"), Wait, Import("X", "P") >>
    [] from = "P" /\ to = "C" -> << Export("P", "C"), Wait, Import("C", "P") >>
    [] from = "C" /\ to = "X" -> << Export("C", "X"), Wait, Import("X", "C") >>
    [] from = "C" /\ to = "P" -> << Export("C", "P"), Wait, Import("P", "C") >>
    [] OTHER -> << >>

\* The catch blocks of XChainOperations / PChainOperations exportTo and importFrom.
ExportToCatch(l, d, e) ==
  EvalancheError(<<"Failed to export from", l, d>>, "CROSS_CHAIN_ERROR", CauseOf(e))

ImportFromCatch(l, s, e) ==
  EvalancheError(<<"Failed to import to", l, s>>, "CROSS_CHAIN_ERROR", CauseOf(e))

\* What primitive s throws to its caller when e is thrown inside it: the X and
\* P modules wrap it, exportFromC and importToC have no catch and let it pass.
PrimitiveThrows(s, e) ==
  IF s.ledger = "C" THEN e
  ELSE IF s.op = "export" THEN ExportToCatch(s.ledger, s.arg, e)
  ELSE ImportFromCatch(s.ledger, s.arg, e)

\* The guard of transfer: from === to.
InvalidDirection ==
  EvalancheError(<<"Source and destination chains must be different">>,
                 "CROSS_CHAIN_ERROR", "none")

\* A faulty catch block: every error is replaced by a new one that keeps
\* neither the message nor the cause.
TransferCatchGeneric(e, from, to) ==
  EvalancheError(<<"Cross-chain transfer failed", from, to, "unknown">>,
                 "CROSS_CHAIN_ERROR", "none")

\* The catch block of transfer.
TransferCatch(e, from, to) ==
  IF e.cls = "EvalancheError" THEN e
  ELSE EvalancheError(<<"Cross-chain transfer failed", from, to, MessageOf(e)>>,
                      "CROSS_CHAIN_ERROR", CauseOf(e))

----------------------------------------------------------------------------
\* Calls.

IdleCall ==
  [kind |-> "none", from |-> "-", to |-> "-", amount |-> 0, ip |-> 0,
   ph |-> "idle", saw |-> {}, exportTxId |-> "", importTxId |-> "",
   result |-> <<>>, thrown |-> NoErr, err |-> NoErr, log |-> <<>>,
   feeData |-> "-", baseFee |-> 0, sel |-> {}]

\* A direct import is importFrom(source) on the X or P module: the call's `to`
\* is the module's ledger and its `from` the source named.
StepsOf(r) ==
  IF r.kind = "transfer" THEN TransferSteps(r.from, r.to)
  ELSE << Import(r.to, r.from) >>

CurStep(r) == StepsOf(r)[r.ip]

PhaseOf(op) ==
  CASE op = "export" -> "build"
    [] op = "wait" -> "sleep"
    [] op = "import" -> "query"

Ev(what, s, amt) ==
  [ev |-> what, op |-> s.op, ledger |-> s.ledger, arg |-> s.arg, amt |-> amt]

\* The call reaches its next awaited primitive and runs it up to its first await.
Invoke(r, s) ==
  [r EXCEPT !.ip = r.ip + 1, !.ph = PhaseOf(s.op),
            !.log = Append(@, Ev("call", s, IF s.op = "export" THEN r.amount ELSE 0))]

Returned(r) == [r EXCEPT !.log = Append(@, Ev("ret", CurStep(r), 0))]

\* A faulty end of transfer: the error is swallowed and the ids are returned.
TransferSettleSwallow(r, thrown) ==
  [r EXCEPT !.ph = "done", !.result = <<r.exportTxId, r.importTxId>>]

\* The end of transfer: `return { exportTxId, importTxId }`, or the catch block.
TransferSettle(r, thrown) ==
  IF thrown = NoErr
  THEN [r EXCEPT !.ph = "done", !.result = <<r.exportTxId, r.importTxId>>]
  ELSE [r EXCEPT !.ph = "failed", !.thrown = thrown,
                 !.err = TransferCatch(thrown, r.from, r.to)]

\* The end of a direct importFrom: `return response.txID`, or its own error.
DirectSettle(r, thrown) ==
  IF thrown = NoErr
  THEN [r EXCEPT !.ph = "done", !.result = <<r.importTxId>>]
  ELSE [r EXCEPT !.ph = "failed", !.thrown = thrown, !.err = thrown]

Settle(r, thrown) ==
  IF r.kind = "transfer" THEN TransferSettle(r, thrown) ELSE DirectSettle(r, thrown)

\* A primitive returned: the next one of the arm is awaited, or the call ends.
Proceed(r) ==
  IF r.ip < Len(StepsOf(r)) THEN Invoke(r, StepsOf(r)[r.ip + 1])
  ELSE Settle(r, NoErr)

\* e is thrown inside the current primitive.
Raise(r, e) == Settle(r, PrimitiveThrows(CurStep(r), e))

----------------------------------------------------------------------------
\* The ledgers.

RECURSIVE SumAmt(_)
SumAmt(S) ==
  IF S = {} THEN 0
  ELSE LET o == CHOOSE x \in S : TRUE IN o.amt + SumAmt(S \ {o})

\* A faulty query: the source ledger is not looked at.
AtomicUTXOsAnySource(l, s) == {o \in outs : o.dst = l /\ o.st = "visible"}

\* A faulty query: the two ledgers are passed in the wrong order.
AtomicUTXOsSwapped(l, s) == {o \in outs : o.dst = s /\ o.src = l /\ o.st = "visible"}

\* signer.getAtomicUTXOs(l, s): the outputs exported from s to l that l exposes
\* and that no import has consumed.
AtomicUTXOs(l, s) == {o \in outs : o.dst = l /\ o.src = s /\ o.st = "visible"}

\* The unspent outputs ledger l holds for the agent.
Unspent(l) == {o \in native : o.chain = l /\ o.st = "unspent"}

\* signer.exportX / exportP(amount, utxoSet, destination): the SDK takes
\* outputs of the set it was given until they cover the amount.
Select(avail, amount) ==
  {S \in SUBSET avail :
     /\ SumAmt(S) >= amount
     /\ \A o \in S : SumAmt(S \ {o}) < amount}

\* A faulty ledger: a transaction is accepted whatever became of its inputs.
InputsAny(sel) == TRUE

\* The ledger's rule for a transaction: each input is an output it holds
\* unspent.
InputsUnspent(sel) == \A id \in sel : \E o \in native : o.id = id /\ o.st = "unspent"

\* The X and P ledgers start with InitBal outputs of one unit each; the funds
\* on C are an account balance.
XInit ==
  /\ bal = [l \in Chains |-> InitBal]
  /\ native = {[id |-> "g" \o l \o ToString(i), chain |-> l, amt |-> 1,
                st |-> "unspent", by |-> ""] : l \in {"X", "P"}, i \in 1..InitBal}
  /\ outs = {}
  /\ nextTx = 1
  /\ call = [c \in Calls |-> IdleCall]

----------------------------------------------------------------------------
\* The caller's operations.

\* Calls are numbered in the order they are made.
IsNextCall(c) ==
  /\ call[c].kind = "none"
  /\ \A d \in Calls : d < c => call[d].kind # "none"

\* transfer(from, to, amount), up to the first await of its export primitive.
TransferStart(c, from, to, amt) ==
  /\ IsNextCall(c)
  /\ LET r == [IdleCall EXCEPT !.kind = "transfer", !.from = from, !.to = to,
                               !.amount = amt]
     IN call' = [call EXCEPT ![c] =
          IF from = to
          THEN [r EXCEPT !.ph = "failed", !.err = InvalidDirection]
          ELSE IF TransferSteps(from, to) = << >>
          THEN TransferSettle(r, RawError("Unsupported transfer direction"))
          ELSE Invoke(r, TransferSteps(from, to)[1])]
  /\ UNCHANGED <<bal, native, outs, nextTx, kvars, avars, bvars, pvars, mvars, rvars, svars, tvars>>

\* xChain().importFrom(s) or pChain().importFrom(s), called directly.
DirectImportStart(c, l, s) ==
  /\ IsNextCall(c)
  /\ l \in {"X", "P"} /\ s \in Chains \ {l}
  /\ call' = [call EXCEPT ![c] =
       Invoke([IdleCall EXCEPT !.kind = "import", !.from = s, !.to = l], Import(l, s))]
  /\ UNCHANGED <<bal, native, outs, nextTx, kvars, avars, bvars, pvars, mvars, rvars, svars, tvars>>

\* The error of an import that finds no atomic output: of importFrom on X and
\* P, and of importToC.
NoAtomicUTXOs(l) ==
  IF l = "C" THEN RawError("No atomic UTXOs available for C-Chain import")
  ELSE RawError("No atomic UTXOs available for import")

\* The fixed base fee of exportFromC and importToC, in gwei.
FallbackBaseFee == 25

\* What provider.evmRpc.getFeeData() gives: the gas price the fee endpoint
\* quotes (in gwei); a null gas price when the fee endpoint does not answer;
\* or it rejects, when the connection to the EVM ledger fails as a whole.
FeeAnswers ==
  {[kind |-> "quoted", gasPrice |-> g] : g \in 1..MaxGasPrice}
  \cup {[kind |-> "null", gasPrice |-> 0], [kind |-> "reject", gasPrice |-> 0]}

\* A faulty fee: the gas price is used as it comes, null included.
BaseFeeNoFallback(fd) == fd.gasPrice

\* feeData.gasPrice ?? BigInt(25_000_000_000)
BaseFee(fd) == IF fd.kind = "null" THEN FallbackBaseFee ELSE fd.gasPrice

\* The primitive of ledger C has the answer fd of getFeeData and builds and
\* signs its transaction, or getFeeData's rejection leaves the primitive.
WithFee(r, fd, next) ==
  IF fd.kind = "reject" THEN Raise(r, RawError("getFeeData failed"))
  ELSE [r EXCEPT !.ph = next, !.feeData = fd.kind, !.baseFee = BaseFee(fd)]

\* A faulty export: the outputs are not checked against the amount.
ExportBuildUnchecked(c) ==
  /\ call[c].ph = "build"
  /\ call' = [call EXCEPT ![c] = [call[c] EXCEPT !.ph = "submit"]]
  /\ UNCHANGED <<bal, native, outs, nextTx, kvars, avars, bvars, pvars, mvars, rvars, svars, tvars>>

\* The export primitive has its inputs (the unspent outputs of X or P; nonce
\* and fee data fd on C) and builds and signs the export transaction.  The SDK's
\* builder throws when the outputs of X or P do not cover the amount.
ExportBuild(c) ==
  /\ call[c].ph = "build"
  /\ LET r == call[c]
         s == CurStep(r)
         funded == s.ledger # "C" /\ r.amount <= SumAmt(Unspent(s.ledger))
     IN \E fd \in FeeAnswers, S \in SUBSET Unspent(s.ledger) :
          /\ IF funded THEN S \in Select(Unspent(s.ledger), r.amount) ELSE S = {}
          /\ call' = [call EXCEPT ![c] =
               IF s.ledger = "C" THEN WithFee(r, fd, "submit")
               ELSE IF ~funded
               THEN Raise(r, RawError("insufficient funds"))
               ELSE [r EXCEPT !.ph = "submit", !.sel = {o.id : o \in S}]]
  /\ UNCHANGED <<bal, native, outs, nextTx, kvars, avars, bvars, pvars, mvars, rvars, svars, tvars>>

\* api.issueSignedTx(signedTx) of an export is answered: the ledger accepts the
\* transaction, debits the source (on X and P it consumes the inputs and
\* returns the change as a new output) and creates the atomic output.
ExportAccepted(c) ==
  /\ call[c].ph = "submit"
  /\ LET r == call[c]
         s == CurStep(r)
         id == TxName(nextTx)
         used == {o \in native : o.id \in r.sel}
         change == SumAmt(used) - r.amount
     IN /\ bal[s.ledger] >= r.amount
        /\ InputsUnspent(r.sel)
        /\ bal' = [bal EXCEPT ![s.ledger] = @ - r.amount]
        /\ native' = (native \ used)
                        \cup {[o EXCEPT !.st = "spent", !.by = id] : o \in used}
                        \cup {[id |-> id \o "c", chain |-> s.ledger, amt |-> change,
                                st |-> "unspent", by |-> ""] : k \in 1..(IF change > 0 THEN 1 ELSE 0)}
        /\ outs' = outs \cup {[id |-> id, src |-> s.ledger, dst |-> s.arg,
                               amt |-> r.amount, st |-> "hidden", by |-> ""]}
        /\ nextTx' = nextTx + 1
        /\ call' = [call EXCEPT ![c] = Proceed(Returned([r EXCEPT !.exportTxId = id]))]
  /\ UNCHANGED <<kvars, avars, bvars, pvars, mvars, rvars, svars, tvars>>

\* ... or the ledger rejects it.
ExportRejected(c, e) ==
  /\ call[c].ph = "submit"
  /\ e \in Rejections
  /\ call' = [call EXCEPT ![c] = Raise(call[c], e)]
  /\ UNCHANGED <<bal, native, outs, nextTx, kvars, avars, bvars, pvars, mvars, rvars, svars, tvars>>

\* waitForConfirmation(): the 3 s timer fires.
WaitDone(c) ==
  /\ call[c].ph = "sleep"
  /\ call' = [call EXCEPT ![c] = Proceed(Returned(call[c]))]
  /\ UNCHANGED <<bal, native, outs, nextTx, kvars, avars, bvars, pvars, mvars, rvars, svars, tvars>>

\* A faulty import: the check for an empty answer is missing.
ImportQueryUnchecked(c) ==
  /\ call[c].ph = "query"
  /\ LET r == call[c]
         s == CurStep(r)
         seen == AtomicUTXOs(s.ledger, s.arg)
     IN call' = [call EXCEPT ![c] = [r EXCEPT !.ph = "isubmit", !.saw = {o.id : o \in seen}]]
  /\ UNCHANGED <<bal, native, outs, nextTx, kvars, avars, bvars, pvars, mvars, rvars, svars, tvars>>

\* The import primitive has the answer of getAtomicUTXOs(ledger, source); with
\* none it throws, else it builds and signs an import of all of them.
ImportQuery(c) ==
  /\ call[c].ph = "query"
  /\ LET r == call[c]
         s == CurStep(r)
         seen == AtomicUTXOs(s.ledger, s.arg)
     IN \E fd \in FeeAnswers :
          call' = [call EXCEPT ![c] =
            IF seen = {}
            THEN Raise(r, NoAtomicUTXOs(s.ledger))
            ELSE IF s.ledger = "C"
            THEN WithFee([r EXCEPT !.saw = {o.id : o \in seen}], fd, "isubmit")
            ELSE [r EXCEPT !.ph = "isubmit", !.saw = {o.id : o \in seen}]]
  /\ UNCHANGED <<bal, native, outs, nextTx, kvars, avars, bvars, pvars, mvars, rvars, svars, tvars>>

\* api.issueSignedTx(signedTx) of an import is answered: the ledger accepts it,
\* consumes the outputs it names and credits the destination.
ImportAccepted(c) ==
  /\ call[c].ph = "isubmit"
  /\ LET r == call[c]
         s == CurStep(r)
         id == TxName(nextTx)
         used == {o \in outs : o.id \in r.saw}
     IN /\ \A o \in used : o.st = "visible"
        /\ outs' = (outs \ used) \cup
                   {[o EXCEPT !.st = "imported", !.by = id] : o \in used}
        /\ bal' = [bal EXCEPT ![s.ledger] = @ + SumAmt(used)]
        /\ native' = native \cup
                        {[id |-> id \o "i", chain |-> l, amt |-> SumAmt(used),
                          st |-> "unspent", by |-> ""] : l \in {s.ledger} \ {"C"}}
        /\ nextTx' = nextTx + 1
        /\ call' = [call EXCEPT ![c] = Proceed(Returned([r EXCEPT !.importTxId = id]))]
  /\ UNCHANGED <<kvars, avars, bvars, pvars, mvars, rvars, svars, tvars>>

\* ... or the ledger rejects it (an output already spent, or any other reason).
ImportRejected(c, e) ==
  /\ call[c].ph = "isubmit"
  /\ e \in Rejections
  /\ call' = [call EXCEPT ![c] = Raise(call[c], e)]
  /\ UNCHANGED <<bal, native, outs, nextTx, kvars, avars, bvars, pvars, mvars, rvars, svars, tvars>>

\* The destination ledger exposes an exported output as an atomic output.
Expose(id) ==
  /\ \E o \in outs : o.id = id /\ o.st = "hidden"
  /\ outs' = {IF o.id = id THEN [o EXCEPT !.st = "visible"] ELSE o : o \in outs}
  /\ UNCHANGED <<bal, native, nextTx, call, kvars, avars, bvars, pvars, mvars, rvars, svars, tvars>>

----------------------------------------------------------------------------
\* The key material store (AgentKeystore).

NoKs == [exists |-> FALSE, seed |-> 0, mn |-> FALSE, pw |-> <<>>, mode |-> "-"]
NoEnt == [exists |-> FALSE, hex |-> 0, nl |-> FALSE, mode |-> "-"]

\* derivePassword(entropy): `evalanche:${entropy}`
DerivePassword(hex, nl) == <<"evalanche", hex, nl>>

\* entropy.trim(): a trailing line break is dropped.
Trim(f) == [f EXCEPT !.nl = FALSE]

\* wallet.address: the address derived from the wallet's secret.
Address(seed) == <<"0x", seed>>

\* mnemonic.phrase
Phrase(seed) == <<"phrase", seed>>

\* The catch of getPassword, of load and of init.
GetPasswordCatch == EvalancheError(<<"Entropy file missing">>, "WALLET_ERROR", "none")

\* A faulty catch of load: the error caught is thrown again as it is.
LoadCatchRethrow(e) == e

LoadCatch(e) == EvalancheError(<<"Failed to load keystore">>, "WALLET_ERROR", CauseOf(e))

\* A faulty catch of init: a failure to save is reported as a failure to load.
InitCatchAsLoad(e) ==
  IF e.cls = "EvalancheError" THEN e
  ELSE EvalancheError(<<"Failed to load keystore">>, "WALLET_ERROR", CauseOf(e))

InitCatch(e) ==
  IF e.cls = "EvalancheError" THEN e
  ELSE EvalancheError(<<"Failed to initialize agent keystore">>, "WALLET_ERROR", CauseOf(e))

NoMnemonic ==
  EvalancheError(<<"Keystore does not contain a mnemonic">>, "WALLET_ERROR", "none")

IdleK ==
  [op |-> "none", pc |-> "idle", seed |-> 0, mn |-> FALSE, hex |-> 0,
   ksRead |-> NoKs, ksGot |-> FALSE, entRead |-> NoEnt, entGot |-> FALSE]

NoResult ==
  [op |-> "none", ok |-> FALSE, isNew |-> FALSE, address |-> <<>>, secret |-> <<>>,
   err |-> NoErr]

\* A faulty exists(): the path probed is never there.
KsExistsNever == FALSE

\* exists(): access(keystorePath) resolves or throws.
KsExists == ksFile.exists

\* The content of a keystore file that is not a valid encrypted record.
Corrupt == <<"corrupt">>

\* File modes: owner-only, or readable by others as well.
Modes == {"0600", "0644"}

\* Wallet.fromEncryptedJson(keystore, password): what it throws, if anything.
FromEncryptedJson(ks, password) ==
  IF ks.pw = Corrupt THEN RawError("invalid keystore JSON")
  ELSE IF ks.pw # password THEN RawError("incorrect password")
  ELSE NoErr

\* The storage as a first operation may find it: no keystore record (and no
\* entropy file, or one left behind), or the record of an earlier boot, intact
\* or damaged, with its entropy file or without, in any file mode.
KInit ==
  /\ writable \in BOOLEAN
  /\ \/ /\ ksFile = NoKs
        /\ entFile \in {NoEnt} \cup
             {[exists |-> TRUE, hex |-> h, nl |-> TRUE, mode |-> "0644"] : h \in Entropies}
     \/ \E w \in Seeds, h \in Entropies, m \in BOOLEAN, km \in Modes :
          /\ ksFile \in {[exists |-> TRUE, seed |-> w, mn |-> m, pw |-> x, mode |-> km] :
                            x \in {DerivePassword(h, FALSE), Corrupt}}
          /\ entFile \in {NoEnt} \cup
               {[exists |-> TRUE, hex |-> h, nl |-> n, mode |-> em] :
                  n \in BOOLEAN, em \in Modes}
  /\ kcall = [p \in Callers |-> IdleK]
  /\ khist = << >>
  /\ kstart = ksFile.exists

\* The store while the settlement orchestrator is studied: untouched.
KIdle ==
  /\ writable = TRUE
  /\ ksFile = NoKs
  /\ entFile = NoEnt
  /\ kcall = [p \in Callers |-> IdleK]
  /\ khist = << >>
  /\ kstart = FALSE

\* Calls are made one after the other.
MayStart == /\ \A p \in Callers : kcall[p].op = "none"
            /\ Len(khist) < MaxKeyOps

\* The operation of caller p ends and hands res to the caller.
KEnd(p, res) ==
  /\ kcall' = [kcall EXCEPT ![p] = IdleK]
  /\ khist' = Append(khist, res)

\* load() begins: Promise.all([readFile(keystorePath), getPassword()]).
BeginLoad(r) == [r EXCEPT !.pc = "reads"]

\* A faulty init(): a wallet is created and saved whatever exists() found.
InitAlwaysCreates(r, found, w) == [r EXCEPT !.pc = "mkdir", !.seed = w, !.mn = TRUE]

\* init() after exists(): load the record found, or create a wallet (w) and save it.
InitAfterExists(r, found, w) ==
  IF found THEN BeginLoad(r)
  ELSE [r EXCEPT !.pc = "mkdir", !.seed = w, !.mn = TRUE]

\* What the operation throws to its caller when e leaves load() or save().
Thrown(r, e) ==
  [NoResult EXCEPT !.op = r.op, !.err = IF r.op = "init" THEN InitCatch(e) ELSE e]

\* A faulty exportMnemonic: the check for a mnemonic is missing.
LoadedAlwaysMnemonic(r, seed, mn) ==
  CASE r.op = "init" ->
         [NoResult EXCEPT !.op = "init", !.ok = TRUE, !.isNew = FALSE,
                          !.address = Address(seed)]
    [] r.op = "load" ->
         [NoResult EXCEPT !.op = "load", !.ok = TRUE, !.address = Address(seed),
                          !.secret = IF mn THEN Phrase(seed) ELSE <<"key", seed>>]
    [] r.op = "exportMnemonic" ->
         [NoResult EXCEPT !.op = r.op, !.ok = TRUE, !.secret = Phrase(seed)]

\* What the operation returns once load() gave the wallet (seed, mn).
Loaded(r, seed, mn) ==
  CASE r.op = "init" ->
         [NoResult EXCEPT !.op = "init", !.ok = TRUE, !.isNew = FALSE,
                          !.address = Address(seed)]
    [] r.op = "load" ->
         [NoResult EXCEPT !.op = "load", !.ok = TRUE, !.address = Address(seed),
                          !.secret = IF mn THEN Phrase(seed) ELSE <<"key", seed>>]
    [] r.op = "exportMnemonic" ->
         IF mn
         THEN [NoResult EXCEPT !.op = r.op, !.ok = TRUE, !.secret = Phrase(seed)]
         ELSE [NoResult EXCEPT !.op = r.op, !.err = NoMnemonic]

KStart(p, op) ==
  /\ MayStart
  /\ op \in {"init", "load", "exportMnemonic"}
  /\ kcall' = [kcall EXCEPT ![p] =
       IF op = "init" THEN [IdleK EXCEPT !.op = op, !.pc = "access"]
       ELSE BeginLoad([IdleK EXCEPT !.op = op])]
  /\ UNCHANGED <<ksFile, entFile, writable, khist, kstart, xvars, avars, bvars, pvars, mvars, rvars, svars, tvars>>

\* init(): `await this.exists()` is answered.
InitExists(p, w) ==
  /\ kcall[p].pc = "access"
  /\ kcall' = [kcall EXCEPT ![p] = InitAfterExists(kcall[p], KsExists, w)]
  /\ UNCHANGED <<ksFile, entFile, writable, khist, kstart, xvars, avars, bvars, pvars, mvars, rvars, svars, tvars>>

\* load(): readFile(keystorePath) is answered.
LoadReadKs(p) ==
  /\ kcall[p].pc = "reads" /\ ~kcall[p].ksGot
  /\ IF ksFile.exists
     THEN /\ kcall' = [kcall EXCEPT ![p] =
                [@ EXCEPT !.ksRead = ksFile, !.ksGot = TRUE,
                          !.pc = IF kcall[p].entGot THEN "decrypt" ELSE "reads"]]
          /\ UNCHANGED khist
     ELSE KEnd(p, Thrown(kcall[p], LoadCatch(RawError("ENOENT"))))
  /\ UNCHANGED <<ksFile, entFile, writable, kstart, xvars, avars, bvars, pvars, mvars, rvars, svars, tvars>>

\* load(): getPassword()'s readFile(entropyPath) is answered.
LoadReadEnt(p) ==
  /\ kcall[p].pc = "reads" /\ ~kcall[p].entGot
  /\ IF entFile.exists
     THEN /\ kcall' = [kcall EXCEPT ![p] =
                [@ EXCEPT !.entRead = entFile, !.entGot = TRUE,
                          !.pc = IF kcall[p].ksGot THEN "decrypt" ELSE "reads"]]
          /\ UNCHANGED khist
     ELSE KEnd(p, Thrown(kcall[p], LoadCatch(GetPasswordCatch)))
  /\ UNCHANGED <<ksFile, entFile, writable, kstart, xvars, avars, bvars, pvars, mvars, rvars, svars, tvars>>

\* load(): Wallet.fromEncryptedJson(keystore, password) is answered.
LoadDecrypt(p) ==
  /\ kcall[p].pc = "decrypt"
  /\ LET r == kcall[p]
         e == Trim(r.entRead)
         x == FromEncryptedJson(r.ksRead, DerivePassword(e.hex, e.nl))
     IN KEnd(p, IF x = NoErr
                THEN Loaded(r, r.ksRead.seed, r.ksRead.mn)
                ELSE Thrown(r, LoadCatch(x)))
  /\ UNCHANGED <<ksFile, entFile, writable, kstart, xvars, avars, bvars, pvars, mvars, rvars, svars, tvars>>

\* save(): mkdir(dir, {recursive}) is answered; then randomBytes(32) (h).
SaveMkdir(p, h) ==
  /\ kcall[p].pc = "mkdir"
  /\ IF writable
     THEN /\ kcall' = [kcall EXCEPT ![p] = [@ EXCEPT !.pc = "writeEnt", !.hex = h]]
          /\ UNCHANGED khist
     ELSE KEnd(p, Thrown(kcall[p], RawError("EACCES")))
  /\ UNCHANGED <<ksFile, entFile, writable, kstart, xvars, avars, bvars, pvars, mvars, rvars, svars, tvars>>

\* save(): writeFile(entropyPath, entropy, {mode: 0o600}); the mode is given
\* to a file the call creates, an existing file keeps its own.
SaveWriteEnt(p) ==
  /\ kcall[p].pc = "writeEnt"
  /\ entFile' = [exists |-> TRUE, hex |-> kcall[p].hex, nl |-> FALSE,
                 mode |-> IF entFile.exists THEN entFile.mode ELSE "0600"]
  /\ kcall' = [kcall EXCEPT ![p] = [@ EXCEPT !.pc = "chmodEnt"]]
  /\ UNCHANGED <<ksFile, writable, khist, kstart, xvars, avars, bvars, pvars, mvars, rvars, svars, tvars>>

\* save(): chmod(entropyPath, 0o600)
SaveChmodEnt(p) ==
  /\ kcall[p].pc = "chmodEnt"
  /\ entFile' = [entFile EXCEPT !.mode = "0600"]
  /\ kcall' = [kcall EXCEPT ![p] = [@ EXCEPT !.pc = "encrypt"]]
  /\ UNCHANGED <<ksFile, writable, khist, kstart, xvars, avars, bvars, pvars, mvars, rvars, svars, tvars>>

\* save(): wallet.encrypt(derivePassword(entropy)) is answered.
SaveEncrypt(p) ==
  /\ kcall[p].pc = "encrypt"
  /\ kcall' = [kcall EXCEPT ![p] = [@ EXCEPT !.pc = "writeKs"]]
  /\ UNCHANGED <<ksFile, entFile, writable, khist, kstart, xvars, avars, bvars, pvars, mvars, rvars, svars, tvars>>

\* A faulty save(): the record is encrypted with the entropy itself, not with
\* the password derived from it.
SaveWriteKsRawEntropy(p) ==
  /\ kcall[p].pc = "writeKs"
  /\ ksFile' = [exists |-> TRUE, seed |-> kcall[p].seed, mn |-> kcall[p].mn,
                pw |-> <<"entropy", kcall[p].hex>>,
                mode |-> IF ksFile.exists THEN ksFile.mode ELSE "0600"]
  /\ kcall' = [kcall EXCEPT ![p] = [@ EXCEPT !.pc = "chmodKs"]]
  /\ UNCHANGED <<entFile, writable, khist, kstart, xvars, avars, bvars, pvars, mvars, rvars, svars, tvars>>

\* save(): writeFile(keystorePath, encrypted, {mode: 0o600})
SaveWriteKs(p) ==
  /\ kcall[p].pc = "writeKs"
  /\ ksFile' = [exists |-> TRUE, seed |-> kcall[p].seed, mn |-> kcall[p].mn,
                pw |-> DerivePassword(kcall[p].hex, FALSE),
                mode |-> IF ksFile.exists THEN ksFile.mode ELSE "0600"]
  /\ kcall' = [kcall EXCEPT ![p] = [@ EXCEPT !.pc = "chmodKs"]]
  /\ UNCHANGED <<entFile, writable, khist, kstart, xvars, avars, bvars, pvars, mvars, rvars, svars, tvars>>

\* save(): chmod(keystorePath, 0o600); init() returns the new wallet.
SaveChmodKs(p) ==
  /\ kcall[p].pc = "chmodKs"
  /\ ksFile' = [ksFile EXCEPT !.mode = "0600"]
  /\ KEnd(p, [NoResult EXCEPT !.op = "init", !.ok = TRUE, !.isNew = TRUE,
                              !.address = Address(kcall[p].seed)])
  /\ UNCHANGED <<entFile, writable, kstart, xvars, avars, bvars, pvars, mvars, rvars, svars, tvars>>

\* The storage before the first boot: no directory, no files.
KEmpty ==
  /\ writable \in BOOLEAN
  /\ ksFile = NoKs
  /\ entFile = NoEnt
  /\ kcall = [p \in Callers |-> IdleK]
  /\ khist = << >>
  /\ kstart = FALSE

\* What is left of an operation whose process stopped: it gave its caller
\* nothing.
Stopped == [NoResult EXCEPT !.op = "stopped"]

\* The process running caller p's operation stops between two awaited
\* operations: nothing more of the operation runs, the files stay as they are.
Stop(p) ==
  /\ kcall[p].op # "none"
  /\ KEnd(p, Stopped)
  /\ UNCHANGED <<ksFile, entFile, writable, kstart, xvars, avars, bvars, pvars, mvars, rvars, svars, tvars>>

\* The operations in progress.
Running == {p \in Callers : kcall[p].op # "none"}

\* init() is called by a process while the init() of another may be between
\* two of its awaits: the store takes no lock.
InitConcurrently(p) ==
  /\ kcall[p].op = "none"
  /\ Len(khist) + Cardinality(Running) < MaxKeyOps
  /\ kcall' = [kcall EXCEPT ![p] = [IdleK EXCEPT !.op = "init", !.pc = "access"]]
  /\ UNCHANGED <<ksFile, entFile, writable, khist, kstart, xvars, avars, bvars, pvars, mvars, rvars, svars, tvars>>

----------------------------------------------------------------------------
\* The Evalanche agent's multi-VM methods.

\* The methods that begin with initMultiVM, directly or through pChain().
AgentOps == {"transfer", "getAddresses", "xChain", "pChain", "getMultiChainBalance",
             "delegate", "getStake", "getValidators", "getMinStake"}

\* The methods that return after initMultiVM without a request to the network.
LocalOps == {"getAddresses", "xChain", "pChain"}

AgentCallers == 1..MaxAgentCallers

\* The error of initMultiVM for an agent without a mnemonic.
MultiVMUnavailable ==
  EvalancheError(<<"Multi-VM requires a mnemonic (not just a private key)">>,
                 "INVALID_CONFIG", "none")

\* The catch of createAvalancheProvider.
ProviderCatch(e) ==
  EvalancheError(<<"Failed to create Avalanche provider">>, "NETWORK_ERROR", CauseOf(e))

\* signer.getCurrentAddress(l): the bech32 address of ledger l, derived from
\* the mnemonic.
GetCurrentAddress(l) == <<l, "avax1", "from the mnemonic">>

\* The keys of the agent: the one the mnemonic gives at the EVM path
\* m/44'/60'/0'/0/0, and a private key that is some other key.
MnemonicEvmKey == <<"mnemonic", "m/44'/60'/0'/0/0">>
OtherKey == <<"privateKey">>

\* The key of config.privateKey: the caller may pass the key the mnemonic
\* gives, or any other.
PrivateKeyOf(a) == IF a.same THEN MnemonicEvmKey ELSE OtherKey

\* The constructor's wallet: createWalletFromPrivateKey(config.privateKey) if
\* a private key is given, else createWalletFromMnemonic(config.mnemonic),
\* which is Wallet.fromPhrase at its default path m/44'/60'/0'/0/0.
WalletKey(a) == IF a.privateKey THEN PrivateKeyOf(a) ELSE MnemonicEvmKey

\* createAvalancheSigner(this._mnemonic, provider): the key that signs the
\* C-ledger export and import transactions is the mnemonic's at
\* m/44'/60'/0'/0/0 (the X/P key is the mnemonic's at m/44'/9000'/0'/0/0).
SignerKeyC == MnemonicEvmKey

\* The EVM address of a key.
EvmAddress(k) == <<"0x">> \o k

NoAddress == << >>

\* The `amount` strings a caller passes to transfer and delegate: a decimal
\* number, and one that is no number; "-" for the methods without an amount.
AmountStrings == {"1", "abc"}
TakesAmount == {"transfer", "delegate"}

\* parseEther(amount) throws the ethers library's own error for a string that
\* is no decimal number; no catch stands between it and the method's caller.
ParseEtherThrows(amount) == amount \notin {"1"}
InvalidAmount == RawError("invalid FixedNumber string value")

\* What a method throws when its request to the ledgers fails: transfer and the
\* P-Chain methods throw what their catch made of it; getMultiChainBalance has
\* no catch of its own, and its C-Chain balance comes from the EVM provider.
NetFailures(op) ==
  IF op = "transfer"
    THEN {TransferCatch(RawError("rejected by the ledger"), "X", "C")}
  ELSE IF op = "delegate"
    THEN {EvalancheError(<<"Failed to delegate to", "NodeID">>, "STAKING_ERROR",
                         "rejected by the ledger")}
  ELSE IF op = "getStake"
    THEN {EvalancheError(<<"Failed to get staking info">>, "STAKING_ERROR",
                         "network unreachable")}
  ELSE IF op = "getValidators"
    THEN {EvalancheError(<<"Failed to get current validators">>, "PCHAIN_ERROR",
                         "network unreachable")}
  ELSE IF op = "getMinStake"
    THEN {EvalancheError(<<"Failed to get min stake amounts">>, "PCHAIN_ERROR",
                         "network unreachable")}
  ELSE {RawError("network unreachable"),
        EvalancheError(<<"Failed to get balance", "X">>, "XCHAIN_ERROR",
                       "network unreachable"),
        EvalancheError(<<"Failed to get balance", "P">>, "PCHAIN_ERROR",
                       "network unreachable")}

AgentFailures == UNION {NetFailures(op) : op \in AgentOps \ LocalOps}

\* delegate's arithmetic: start 1 minute from now, a day of 86400 seconds.
StartDelay == 60
SecondsPerDay == 86400

\* The `durationDays` a caller passes to delegate: a number of whole days,
\* negative and zero included, and one with half a second more; NoDuration
\* for the methods without one.
NoDuration == [given |-> FALSE, whole |-> 0, half |-> 0]
DurationDays ==
  {[given |-> TRUE, whole |-> w, half |-> 0] : w \in (-1)..MaxDays}
    \cup {[given |-> TRUE, whole |-> 1, half |-> 1]}

\* Date.now() when delegate reads it, in milliseconds.
NowMs == {k * 999 : k \in 0..MaxClock}

\* Twice durationDays * 86400, the product being a whole number or one half
\* more.
TwiceSeconds(d) == d.whole * 2 * SecondsPerDay + d.half

\* BigInt(x) throws a RangeError for a number that is no integer.
BigIntThrows(d) == TwiceSeconds(d) % 2 # 0
NotAnInteger == RawError("RangeError: cannot be converted to a BigInt")

\* A faulty start: the delegation starts now.
DelegateStartNow(ms) == ms \div 1000

\* BigInt(Math.floor(Date.now() / 1000)) + BigInt(60)
DelegateStart(ms) == (ms \div 1000) + StartDelay

\* now + BigInt(durationDays * 86400)
DelegateEnd(start, d) == start + (TwiceSeconds(d) \div 2)

IdleA ==
  [op |-> "none", pc |-> "idle", amount |-> "-", days |-> NoDuration,
   at |-> 0, start |-> 0, end |-> 0]

NoAResult ==
  [op |-> "none", ok |-> FALSE, err |-> NoErr, C |-> NoAddress, X |-> NoAddress,
   P |-> NoAddress]

\* The constructor: a private key or a mnemonic is required; the wallet comes
\* from the private key when both are given, and the mnemonic is kept.
AConstructed ==
  /\ agent \in {[privateKey |-> k, mnemonic |-> m, same |-> e, initialized |-> FALSE,
                  calls |-> 0] : k \in BOOLEAN, m \in BOOLEAN, e \in BOOLEAN}
  /\ agent.privateKey \/ agent.mnemonic
  /\ agent.same => agent.privateKey /\ agent.mnemonic
  /\ acall = [p \in AgentCallers |-> IdleA]
  /\ ahist = {}
  /\ net = {}
  /\ providerCache = {}
  /\ up = TRUE

\* The agent while other parts are studied: constructed, never called.
AIdle ==
  /\ agent = [privateKey |-> FALSE, mnemonic |-> TRUE, same |-> FALSE,
              initialized |-> FALSE, calls |-> 0]
  /\ acall = [p \in AgentCallers |-> IdleA]
  /\ ahist = {}
  /\ net = {}
  /\ providerCache = {}
  /\ up = TRUE

\* A faulty initMultiVM: the check for a mnemonic is missing.
InitMultiVMUnchecked(a, r) ==
  IF a.initialized THEN [r EXCEPT !.pc = "body"] ELSE [r EXCEPT !.pc = "import"]

\* initMultiVM up to its first await: it returns at once when initialized,
\* throws without a mnemonic, else awaits the dynamic imports.
InitMultiVM(a, r) ==
  IF a.initialized THEN [r EXCEPT !.pc = "body"]
  ELSE IF ~a.mnemonic THEN [r EXCEPT !.pc = "throw"]
  ELSE [r EXCEPT !.pc = "import"]

\* The method of caller p ends and hands res to the caller.
AEnd(p, res) ==
  /\ acall' = [acall EXCEPT ![p] = IdleA]
  /\ ahist' = ahist \cup {res}

AFailed(op, e) == [NoAResult EXCEPT !.op = op, !.err = e]

\* What a method that makes no request returns.
LocalResult(op) ==
  [NoAResult EXCEPT !.op = op, !.ok = TRUE,
     !.C = IF op = "getAddresses" THEN EvmAddress(WalletKey(agent)) ELSE NoAddress,
     !.X = IF op \in {"getAddresses", "xChain"} THEN GetCurrentAddress("X") ELSE NoAddress,
     !.P = IF op \in {"getAddresses", "pChain"} THEN GetCurrentAddress("P") ELSE NoAddress]

\* A method is called (the call takes the first free slot):
\* `await this.initMultiVM()`.
AStart(p, op, amount, days) ==
  /\ acall[p].op = "none"
  /\ amount \in (IF op \in TakesAmount THEN AmountStrings ELSE {"-"})
  /\ days \in (IF op = "delegate" THEN DurationDays ELSE {NoDuration})
  /\ \A q \in AgentCallers : q < p => acall[q].op # "none"
  /\ agent.calls < MaxAgentOps
  /\ agent' = [agent EXCEPT !.calls = @ + 1]
  /\ LET r == InitMultiVM(agent, [IdleA EXCEPT !.op = op, !.amount = amount, !.days = days])
     IN IF r.pc = "throw"
        THEN AEnd(p, AFailed(op, MultiVMUnavailable))
        ELSE acall' = [acall EXCEPT ![p] = r] /\ UNCHANGED ahist
  /\ UNCHANGED <<net, providerCache, up, xvars, kvars, bvars, pvars, mvars, rvars, svars, tvars>>

\* networkName of initMultiVM for an agent of the main network.
NetworkName == "avalanche"

\* const cached = providerCache.get(network); if (cached) return cached;
Cached(network) == network \in providerCache

\* initMultiVM: the modules are imported; createAvalancheProvider returns the
\* cached provider of the network, or asks the SDK for one, which may throw,
\* and caches it.
AImported(p) ==
  /\ acall[p].pc = "import"
  /\ IF Cached(NetworkName)
     THEN /\ acall' = [acall EXCEPT ![p].pc = "provider"]
          /\ UNCHANGED <<ahist, net, providerCache>>
     ELSE /\ net' = net \cup {[by |-> acall[p].op, req |-> "provider"]}
          /\ IF up
             THEN /\ providerCache' = providerCache \cup {NetworkName}
                  /\ acall' = [acall EXCEPT ![p].pc = "provider"]
                  /\ UNCHANGED ahist
             ELSE /\ AEnd(p, AFailed(acall[p].op,
                                     ProviderCatch(RawError("network unreachable"))))
                  /\ UNCHANGED providerCache
  /\ UNCHANGED <<agent, up, xvars, kvars, bvars, pvars, mvars, rvars, svars, tvars>>

\* clearProviderCache()
ClearProviderCache ==
  /\ providerCache # {}
  /\ providerCache' = {}
  /\ UNCHANGED <<agent, acall, ahist, net, up, xvars, kvars, bvars, pvars, mvars, rvars, svars, tvars>>

\* The SDK stops or starts being able to make a provider.
Outage ==
  /\ up' = ~up
  /\ UNCHANGED <<agent, acall, ahist, net, providerCache, xvars, kvars, bvars, pvars, mvars, rvars, svars, tvars>>

\* initMultiVM: the signer and the ledger modules are made from the mnemonic.
AProvider(p) ==
  /\ acall[p].pc = "provider"
  /\ agent' = [agent EXCEPT !.initialized = TRUE]
  /\ acall' = [acall EXCEPT ![p].pc = "body"]
  /\ UNCHANGED <<ahist, net, providerCache, up, xvars, kvars, bvars, pvars, mvars, rvars, svars, tvars>>

\* The method's own code after initMultiVM: it returns addresses or a ledger
\* module, or parses its amount and sends its first request; delegate computes
\* the interval in between and calls addDelegator with it.
ABody(p) ==
  /\ acall[p].pc = "body"
  /\ IF acall[p].op \in LocalOps
     THEN AEnd(p, LocalResult(acall[p].op)) /\ UNCHANGED net
     ELSE IF acall[p].op \in TakesAmount /\ ParseEtherThrows(acall[p].amount)
     THEN AEnd(p, AFailed(acall[p].op, InvalidAmount)) /\ UNCHANGED net
     ELSE IF acall[p].op = "delegate" /\ BigIntThrows(acall[p].days)
     THEN AEnd(p, AFailed(acall[p].op, NotAnInteger)) /\ UNCHANGED net
     ELSE /\ net' = net \cup {[by |-> acall[p].op, req |-> "ledger"]}
          /\ \E ms \in NowMs :
               acall' = [acall EXCEPT ![p] =
                 IF acall[p].op = "delegate"
                 THEN [@ EXCEPT !.pc = "net", !.at = ms, !.start = DelegateStart(ms),
                         !.end = DelegateEnd(DelegateStart(ms), acall[p].days)]
                 ELSE [@ EXCEPT !.pc = "net"]]
          /\ UNCHANGED ahist
  /\ UNCHANGED <<agent, providerCache, up, xvars, kvars, bvars, pvars, mvars, rvars, svars, tvars>>

\* The ledgers answer the method's requests: it returns, or throws.
ANet(p, e) ==
  /\ acall[p].pc = "net"
  /\ e \in NetFailures(acall[p].op) \cup {NoErr}
  /\ AEnd(p, IF e = NoErr THEN [NoAResult EXCEPT !.op = acall[p].op, !.ok = TRUE]
             ELSE AFailed(acall[p].op, e))
  /\ UNCHANGED <<agent, net, providerCache, up, xvars, kvars, bvars, pvars, mvars, rvars, svars, tvars>>

ANext ==
  \/ \E p \in AgentCallers, op \in AgentOps, amount \in AmountStrings \cup {"-"},
          days \in DurationDays \cup {NoDuration} :
       AStart(p, op, amount, days)
  \/ \E p \in AgentCallers : AImported(p)
  \/ ClearProviderCache
  \/ Outage
  \/ \E p \in AgentCallers : AProvider(p)
  \/ \E p \in AgentCallers : ABody(p)
  \/ \E p \in AgentCallers, e \in AgentFailures \cup {NoErr} : ANet(p, e)

----------------------------------------------------------------------------
\* getBalance() of XChainOperations and PChainOperations.

\* context.avaxAssetID, and the id of some other asset.
AvaxAssetID == "AVAX"
AssetIDs == {"AVAX", "OTHER"}

\* An unspent output: its asset id and, when its output has an `amount`,
\* that amount.
Utxos ==
  {[assetId |-> a, hasAmount |-> TRUE, amount |-> n] : a \in AssetIDs, n \in Amounts}
  \cup {[assetId |-> a, hasAmount |-> FALSE, amount |-> 0] : a \in AssetIDs}

UtxoSets == UNION {[1..n -> Utxos] : n \in 0..MaxUtxos}

\* A faulty loop: the asset id of an output is not looked at.
GetBalanceLoopAnyAsset(us, i, total) ==
  LET Sum[k \in 0..Len(us)] ==
        IF k = 0 THEN 0
        ELSE Sum[k - 1] + (IF us[k].hasAmount THEN us[k].amount ELSE 0)
  IN Sum[Len(us)]

\* The loop of getBalance from its i-th output on, `total` summed so far.
RECURSIVE GetBalanceLoop(_, _, _)
GetBalanceLoop(us, i, total) ==
  IF i > Len(us) THEN total
  ELSE GetBalanceLoop(us, i + 1,
         IF us[i].assetId = AvaxAssetID /\ us[i].hasAmount
         THEN total + us[i].amount ELSE total)

\* The catch of getBalance.
GetBalanceCatch(l, e) ==
  EvalancheError(<<"Failed to get balance", l>>,
                 IF l = "X" THEN "XCHAIN_ERROR" ELSE "PCHAIN_ERROR", CauseOf(e))

IdleG == [ledger |-> "-", pc |-> "idle", total |-> 0, thrown |-> NoErr, err |-> NoErr]

BInit == utxos \in UtxoSets /\ gcall = IdleG

\* The ledger's outputs while other parts are studied.
BIdle == utxos = << >> /\ gcall = IdleG

\* getBalance() is called on the module of ledger l: `await signer.getUTXOs(l)`.
GetBalanceStart(l) ==
  /\ gcall.pc \in {"idle", "done", "failed"}
  /\ l \in {"X", "P"}
  /\ gcall' = [IdleG EXCEPT !.ledger = l, !.pc = "getUTXOs"]
  /\ UNCHANGED <<utxos, xvars, kvars, avars, pvars, mvars, rvars, svars, tvars>>

\* getUTXOs is answered with the agent's outputs: they are summed and returned.
GetUTXOsAnswered ==
  /\ gcall.pc = "getUTXOs"
  /\ gcall' = [gcall EXCEPT !.pc = "done", !.total = GetBalanceLoop(utxos, 1, 0)]
  /\ UNCHANGED <<utxos, xvars, kvars, avars, pvars, mvars, rvars, svars, tvars>>

\* ... or the request fails.
GetUTXOsFailed(e) ==
  /\ gcall.pc = "getUTXOs"
  /\ gcall' = [gcall EXCEPT !.pc = "failed", !.thrown = e,
                            !.err = GetBalanceCatch(gcall.ledger, e)]
  /\ UNCHANGED <<utxos, xvars, kvars, avars, pvars, mvars, rvars, svars, tvars>>

BNext ==
  \/ \E l \in {"X", "P"} : GetBalanceStart(l)
  \/ GetUTXOsAnswered
  \/ \E e \in {RawError("network unreachable"), RawValue("network unreachable")} :
       GetUTXOsFailed(e)

----------------------------------------------------------------------------
\* X402Client.payAndFetch and X402Facilitator.

\* An amount string: a decimal number of `wei` units of 10^-18 and a 19th
\* fraction digit `sub`, or a string that is no decimal number.
NotDecimal == [kind |-> "bad", wei |-> 0, sub |-> 0]
PayAmounts ==
  {[kind |-> "dec", wei |-> n, sub |-> d] : n \in 0..MaxWei, d \in {0, 1}}
  \cup {NotDecimal}

\* parseEther(a) throws for a string that is no decimal number and for one
\* with more than 18 fraction digits.
ParseEtherOk(a) == a.kind = "dec" /\ a.sub = 0

\* A faulty limit: nothing is compared.
ValidatePaymentLimitAny(amount, maxPayment) == TRUE

\* X402Facilitator.validatePaymentLimit, for amounts parseEther accepts.
ValidatePaymentLimit(amount, maxPayment) == amount.wei <= maxPayment.wei

\* The x-payment-requirements header of a response: absent, no JSON, or the
\* requirements with their amount.
NoHeader == [kind |-> "none", wei |-> 0, sub |-> 0]
NotJson == [kind |-> "not-json", wei |-> 0, sub |-> 0]
RequirementHeaders == PayAmounts \cup {NoHeader, NotJson}

Statuses == {200, 402, 500}

NoProof == << >>

\* createPaymentProof(requirements): the signed payload names the amount.
Proof(amount) == <<"proof", amount.kind, amount.wei, amount.sub>>

IdleP ==
  [pc |-> "idle", maxPayment |-> NotDecimal, first |-> 0, requirements |-> NoHeader,
   proof |-> NoProof, status |-> 0, paymentHash |-> NoProof, err |-> NoErr]

PIdle == pay = IdleP /\ http = << >> /\ proofs = 0

\* The catch of payAndFetch.
PayAndFetchCatch(e) ==
  IF e.cls = "EvalancheError" THEN e
  ELSE EvalancheError(<<"x402 pay-and-fetch failed", MessageOf(e)>>,
                      "X402_PAYMENT_FAILED", CauseOf(e))

PaymentExceeded == EvalancheError(<<"Payment exceeds max">>, "X402_PAYMENT_EXCEEDED", "none")

\* What parsePaymentRequirements throws for header h, NoErr when it returns.
ParsePaymentRequirements(h) ==
  IF h = NoHeader
  THEN EvalancheError(<<"No payment requirements found in 402 response headers">>,
                      "X402_PAYMENT_FAILED", "none")
  ELSE IF h = NotJson
  THEN EvalancheError(<<"Failed to parse x402 payment requirements">>,
                      "X402_PAYMENT_FAILED", "none")
  ELSE NoErr

PFail(r, e) == [r EXCEPT !.pc = "failed", !.err = PayAndFetchCatch(e)]

\* A faulty answer to the paid response: a 402 is paid again.
AfterPaidPayAgain(r, status) ==
  [r EXCEPT !.pc = IF status = 402 THEN "sign" ELSE "text2", !.status = status]

\* The paid response is taken as it is: its body is read next.
AfterPaid(r, status) == [r EXCEPT !.pc = "text2", !.status = status]

\* payAndFetch(url, {maxPayment}) sends the initial request.
PayAndFetch(maxPayment) ==
  /\ pay.pc = "idle"
  /\ pay' = [pay EXCEPT !.pc = "fetch1", !.maxPayment = maxPayment]
  /\ http' = Append(http, [proof |-> NoProof])
  /\ UNCHANGED <<proofs, xvars, kvars, avars, bvars, mvars, rvars, svars, tvars>>

\* fetch() rejects.
FetchRejected ==
  /\ pay.pc \in {"fetch1", "fetch2"}
  /\ pay' = PFail(pay, RawError("fetch failed"))
  /\ UNCHANGED <<http, proofs, xvars, kvars, avars, bvars, mvars, rvars, svars, tvars>>

\* The initial response arrives: any status but 402 is returned as it is; for
\* 402 the requirements are parsed and checked against maxPayment, and the
\* proof's signature is asked for.
InitialResponse(status, h) ==
  /\ pay.pc = "fetch1"
  /\ pay' =
       LET r == [pay EXCEPT !.first = status] IN
       IF status # 402 THEN [r EXCEPT !.pc = "text1", !.status = status]
       ELSE IF ParsePaymentRequirements(h) # NoErr
       THEN PFail(r, ParsePaymentRequirements(h))
       ELSE IF ~ParseEtherOk(h) \/ ~ParseEtherOk(r.maxPayment)
       THEN PFail([r EXCEPT !.requirements = h], InvalidAmount)
       ELSE IF ~ValidatePaymentLimit(h, r.maxPayment)
       THEN PFail([r EXCEPT !.requirements = h], PaymentExceeded)
       ELSE [r EXCEPT !.pc = "sign", !.requirements = h]
  /\ UNCHANGED <<http, proofs, xvars, kvars, avars, bvars, mvars, rvars, svars, tvars>>

\* wallet.signMessage resolves: the proof is made and the request is sent
\* again with it; or it rejects.
Signed(ok) ==
  /\ pay.pc = "sign"
  /\ IF ok
     THEN /\ pay' = [pay EXCEPT !.pc = "fetch2", !.proof = Proof(pay.requirements)]
          /\ proofs' = proofs + 1
          /\ http' = Append(http, [proof |-> Proof(pay.requirements)])
     ELSE /\ pay' = PFail(pay, EvalancheError(<<"Failed to create x402 payment proof">>,
                                              "X402_PAYMENT_FAILED", "signMessage failed"))
          /\ UNCHANGED <<http, proofs>>
  /\ UNCHANGED <<xvars, kvars, avars, bvars, mvars, rvars, svars, tvars>>

\* The paid response arrives.
PaidResponse(status) ==
  /\ pay.pc = "fetch2"
  /\ pay' = AfterPaid(pay, status)
  /\ UNCHANGED <<http, proofs, xvars, kvars, avars, bvars, mvars, rvars, svars, tvars>>

\* response.text() resolves and payAndFetch returns, or it rejects.
TextRead(ok) ==
  /\ pay.pc \in {"text1", "text2"}
  /\ pay' = IF ok THEN [pay EXCEPT !.pc = "done", !.paymentHash = pay.proof]
            ELSE PFail(pay, RawError("body stream failed"))
  /\ UNCHANGED <<http, proofs, xvars, kvars, avars, bvars, mvars, rvars, svars, tvars>>

PNext ==
  \/ \E m \in PayAmounts : PayAndFetch(m)
  \/ FetchRejected
  \/ \E st \in Statuses, h \in RequirementHeaders : InitialResponse(st, h)
  \/ \E ok \in BOOLEAN : Signed(ok)
  \/ \E st \in Statuses : PaidResponse(st)
  \/ \E ok \in BOOLEAN : TextRead(ok)

----------------------------------------------------------------------------
\* EvalancheMCPServer.

\* The names NETWORKS holds a configuration for.
Networks == {"avalanche", "base"}

\* NETWORKS is a plain object: a name such as "constructor" finds a property
\* it inherits, which is no configuration but is not undefined either.
InheritedKeys == {"constructor"}

\* The network names a switch_network call may carry; "-" when it carries none.
NetworkNames == Networks \cup InheritedKeys \cup {"nowhere", "-"}

\* NETWORKS[network]
NetworksLookup(name) ==
  IF name \in Networks THEN name
  ELSE IF name \in InheritedKeys THEN "inherited"
  ELSE "undefined"

\* getNetworkConfig(network) for what a tool argument can be: it returns the
\* entry found, throws for a string that finds none, and throws reading a
\* property of undefined when there is no argument.
GetNetworkConfigThrows(name) == name = "-" \/ NetworksLookup(name) = "undefined"

\* networkConfig.rpcUrl of the entry found; an inherited property has none,
\* and JsonRpcProvider falls back to its default URL.
RpcUrl(name) ==
  IF NetworksLookup(name) = "inherited" THEN "http://localhost:8545"
  ELSE <<"rpc", name>>

\* new Evalanche(config): the provider of the network, the wallet of the key.
NewEvalanche(config) ==
  [network |-> config.network, rpcUrl |-> RpcUrl(config.network),
   address |-> Address(config.key)]

RequestIds == 1..MaxId
Methods == {"initialize", "tools/list", "tools/call", "notifications/initialized",
            "unknown/method"}
ToolNames == {"get_address", "get_balance", "switch_network", "nonexistent_tool"}
Transports == {"stdio", "http", "direct"}

\* The requests a client sends: `params` tells whether the request has any.
Requests ==
  {[via |-> v, id |-> i, method |-> m, params |-> h, tool |-> t, network |-> n] :
     v \in Transports, i \in RequestIds, m \in Methods, h \in BOOLEAN,
     t \in ToolNames \cup {"-"}, n \in NetworkNames}

\* Only a tools/call with params names a tool, only switch_network a network.
WellShaped(q) ==
  /\ (q.tool # "-") = (q.method = "tools/call" /\ q.params)
  /\ q.tool # "switch_network" => q.network = "-"

NoResponse == [id |-> 0, kind |-> "none", code |-> 0, isError |-> FALSE]

\* this.ok(id, result), and the result of the catch of handleToolCall
Ok(id) == [id |-> id, kind |-> "result", code |-> 0, isError |-> FALSE]
OkIsError(id) == [id |-> id, kind |-> "result", code |-> 0, isError |-> TRUE]

\* this.error(id, code, message)
Err(id, code) == [id |-> id, kind |-> "error", code |-> code, isError |-> FALSE]

\* What the transports write when handleRequest rejects.
ParseError == Err(0, -32700)

\* handleRequest rejected: a direct caller gets the rejection.
Rejected == [id |-> 0, kind |-> "rejected", code |-> 0, isError |-> FALSE]

\* What the transport does with the outcome r of handleRequest(q).
Written(q, r) ==
  IF q.via = "direct" THEN r
  ELSE IF r = Rejected THEN ParseError
  ELSE IF q.via = "stdio" /\ q.method = "notifications/initialized" THEN NoResponse
  ELSE r

NoRequest == [via |-> "-", id |-> 0, method |-> "-", params |-> FALSE, tool |-> "-",
              network |-> "-"]

NoExchange == [req |-> NoRequest, resp |-> NoResponse, threw |-> FALSE]

MInit ==
  /\ server \in {[config |-> c, agent |-> NewEvalanche(c)] :
                   c \in {[network |-> "avalanche", key |-> k] : k \in Seeds}}
  /\ mreq = NoRequest
  /\ mout = NoExchange

MIdle ==
  /\ server = [config |-> [network |-> "avalanche", key |-> 1],
               agent |-> NewEvalanche([network |-> "avalanche", key |-> 1])]
  /\ mreq = NoRequest
  /\ mout = NoExchange

\* switch_network: the name is validated, the configuration takes it and the
\* agent is made anew.
SwitchNetwork(s, name) ==
  LET config == [s.config EXCEPT !.network = name]
  IN [config |-> config, agent |-> NewEvalanche(config)]

\* handleRequest for all but the tools that await: what it answers.
HandleRequest(q) ==
  IF q.method \in {"initialize", "tools/list", "notifications/initialized"} THEN Ok(q.id)
  ELSE IF q.method # "tools/call" THEN Err(q.id, -32601)
  ELSE IF ~q.params THEN Rejected
  ELSE IF q.tool = "get_address" THEN Ok(q.id)
  ELSE IF q.tool = "switch_network"
    THEN IF GetNetworkConfigThrows(q.network) THEN OkIsError(q.id) ELSE Ok(q.id)
  ELSE Err(q.id, -32602)

\* A request arrives and is handled up to its answer, or up to the await of
\* get_balance.
MRequest(q) ==
  /\ mreq = NoRequest
  /\ WellShaped(q)
  /\ IF q.method = "tools/call" /\ q.params /\ q.tool = "get_balance"
     THEN mreq' = q /\ UNCHANGED <<server, mout>>
     ELSE /\ mout' = [req |-> q, resp |-> Written(q, HandleRequest(q)),
                    threw |-> HandleRequest(q) = OkIsError(q.id)]
          /\ server' = IF q.tool = "switch_network" /\ ~GetNetworkConfigThrows(q.network)
                       THEN SwitchNetwork(server, q.network) ELSE server
          /\ UNCHANGED mreq
  /\ UNCHANGED <<xvars, kvars, avars, bvars, pvars, rvars, svars, tvars>>

\* provider.getBalance of get_balance resolves, or rejects.
MToolDone(ok) ==
  /\ mreq # NoRequest
  /\ mout' = [req |-> mreq,
              resp |-> Written(mreq, IF ok THEN Ok(mreq.id) ELSE OkIsError(mreq.id)),
              threw |-> ~ok]
  /\ mreq' = NoRequest
  /\ UNCHANGED <<server, xvars, kvars, avars, bvars, pvars, rvars, svars, tvars>>

MNext ==
  \/ \E q \in Requests : MRequest(q)
  \/ \E ok \in BOOLEAN : MToolDone(ok)

----------------------------------------------------------------------------
\* EvalancheMCPServer.startStdio.

\* The lines a client writes: an initialize request, the initialized
\* notification, a call of get_balance (which awaits the network), a
\* tools/call without params, and a line that is no JSON.
LineKinds == {"initialize", "notification", "get_balance", "noparams", "junk"}

\* The request JSON.parse gives for a line of kind k with id i.
LineRequest(k, i) ==
  [via |-> "stdio", id |-> i,
   method |-> CASE k = "initialize" -> "initialize"
                [] k = "notification" -> "notifications/initialized"
                [] OTHER -> "tools/call",
   params |-> k \in {"initialize", "get_balance"},
   tool |-> IF k = "get_balance" THEN "get_balance" ELSE "-",
   network |-> "-"]

\* The text of a line is two pieces, so that a chunk can end inside it; '\n'
\* ends the line.
Piece(part, k, i) == [part |-> part, kind |-> k, id |-> i]
LineBreak == Piece("nl", "-", 0)
LineText(k, i) == << Piece("head", k, i), Piece("tail", k, i), LineBreak >>

\* The streams of up to MaxLines lines, the i-th line carrying id i.
RECURSIVE StreamOf(_, _)
StreamOf(kinds, i) ==
  IF i > Len(kinds) THEN << >>
  ELSE LineText(kinds[i], i) \o StreamOf(kinds, i + 1)

Streams == {StreamOf(ks, 1) : ks \in UNION {[1..n -> LineKinds] : n \in 1..MaxLines}}

\* JSON.parse(trimmed) succeeds on the whole text of a line that is JSON.
JsonParses(l) ==
  /\ Len(l) = 2
  /\ l[1].part = "head" /\ l[2].part = "tail"
  /\ l[1].kind = l[2].kind /\ l[1].id = l[2].id
  /\ l[1].kind # "junk"

\* buffer.split('\n') and lines.pop(): the complete lines of s and what
\* follows the last line break.
RECURSIVE SplitLines(_, _, _)
SplitLines(s, cur, acc) ==
  IF s = << >> THEN [lines |-> acc, rest |-> cur]
  ELSE IF Head(s) = LineBreak THEN SplitLines(Tail(s), << >>, Append(acc, cur))
  ELSE SplitLines(Tail(s), Append(cur, Head(s)), acc)

NoHandler == [waiting |-> NoRequest, rest |-> << >>]

\* The loop of the 'data' handler over the lines ls, `out` written so far: an
\* empty line is skipped, a line that does not parse is answered with the
\* parse error, a request is handled and answered; at a request whose tool
\* awaits the network the handler is suspended with the lines left.
RECURSIVE RunLines(_, _)
RunLines(ls, out) ==
  IF ls = << >> THEN [out |-> out, handler |-> NoHandler]
  ELSE LET l == Head(ls)
       IN IF l = << >> THEN RunLines(Tail(ls), out)
          ELSE IF ~JsonParses(l) THEN RunLines(Tail(ls), Append(out, ParseError))
          ELSE LET q == LineRequest(l[1].kind, l[1].id)
                   w == Written(q, HandleRequest(q))
               IN IF q.tool = "get_balance"
                  THEN [out |-> out, handler |-> [waiting |-> q, rest |-> Tail(ls)]]
                  ELSE RunLines(Tail(ls), IF w = NoResponse THEN out ELSE Append(out, w))

Suspended(run) == IF run.handler = NoHandler THEN {} ELSE {run.handler}

TInit ==
  /\ input \in Streams
  /\ pos = 0
  /\ buffer = << >>
  /\ handlers = {}
  /\ stdout = << >>

\* The stdio transport while other parts are studied: nothing arrives.
TIdle ==
  /\ input = << >>
  /\ pos = 0
  /\ buffer = << >>
  /\ handlers = {}
  /\ stdout = << >>

\* A 'data' event with the next n characters: the buffer takes them, gives up
\* its complete lines, and the handler runs over them up to its first wait.
StdinData(n) ==
  /\ n \in 1..(Len(input) - pos)
  /\ LET chunk == SubSeq(input, pos + 1, pos + n)
         sp == SplitLines(buffer \o chunk, << >>, << >>)
         run == RunLines(sp.lines, stdout)
     IN /\ buffer' = sp.rest
        /\ stdout' = run.out
        /\ handlers' = handlers \cup Suspended(run)
  /\ pos' = pos + n
  /\ UNCHANGED <<input, xvars, kvars, avars, bvars, pvars, mvars, rvars, svars>>

\* The tool call a handler waits on resolves or rejects: the handler writes
\* the response and goes on with its lines.
StdioToolDone(h, ok) ==
  /\ h \in handlers
  /\ LET w == Written(h.waiting, IF ok THEN Ok(h.waiting.id) ELSE OkIsError(h.waiting.id))
         run == RunLines(h.rest, Append(stdout, w))
     IN /\ stdout' = run.out
        /\ handlers' = (handlers \ {h}) \cup Suspended(run)
  /\ UNCHANGED <<input, pos, buffer, xvars, kvars, avars, bvars, pvars, mvars, rvars, svars>>

TNext ==
  \/ \E n \in 1..(3 * MaxLines) : StdinData(n)
  \/ \E h \in handlers, ok \in BOOLEAN : StdioToolDone(h, ok)

----------------------------------------------------------------------------
\* IdentityResolver.resolve and its TTLCache.

\* new TTLCache<AgentIdentity>(5 * 60 * 1000)
TtlMs == 300000

ResolverCallers == 1..MaxResolvers

NoEntry == [has |-> FALSE, value |-> 0, expiresAt |-> 0]

\* A faulty cache: an entry is kept for ever.
ExpiredNever(entry, t) == FALSE

\* Date.now() > entry.expiresAt
Expired(entry, t) == t > entry.expiresAt

\* TTLCache.get(key) at time t: the cache it leaves, and the value it returns
\* (found FALSE for undefined).
CacheGet(entry, t) ==
  IF ~entry.has THEN [cache |-> entry, found |-> FALSE, value |-> 0]
  ELSE IF Expired(entry, t) THEN [cache |-> NoEntry, found |-> FALSE, value |-> 0]
  ELSE [cache |-> entry, found |-> TRUE, value |-> entry.value]

\* TTLCache.set(key, value) at time t
CacheSet(value, t) == [has |-> TRUE, value |-> value, expiresAt |-> t + TtlMs]

IdleR == [pc |-> "idle", at |-> 0, fromCache |-> FALSE, result |-> 0]

RInit ==
  /\ now = 0
  /\ cache = NoEntry
  /\ rcall = [p \in ResolverCallers |-> IdleR]
  /\ rhist = [lastCall |-> -1, lastDone |-> -1]
  /\ chainVal \in 0..MaxVersion

RIdle ==
  /\ now = 0
  /\ cache = NoEntry
  /\ rcall = [p \in ResolverCallers |-> IdleR]
  /\ rhist = [lastCall |-> -1, lastDone |-> -1]
  /\ chainVal = 0

\* resolve() up to its await: the cached identity is returned, or the three
\* registry calls are sent.
Resolve(p) ==
  /\ rcall[p].pc \in {"idle", "done"}
  /\ LET g == CacheGet(cache, now)
     IN /\ cache' = g.cache
        /\ rcall' = [rcall EXCEPT ![p] =
             IF g.found
             THEN [pc |-> "done", at |-> now, fromCache |-> TRUE, result |-> g.value]
             ELSE [pc |-> "chain", at |-> now, fromCache |-> FALSE, result |-> 0]]
  /\ rhist' = [rhist EXCEPT !.lastCall = now]
  /\ UNCHANGED <<now, chainVal, xvars, kvars, avars, bvars, pvars, mvars, svars, tvars>>

\* Promise.allSettled settles: the identity is built, cached and returned.
ChainAnswered(p) ==
  /\ rcall[p].pc = "chain"
  /\ cache' = CacheSet(chainVal, now)
  /\ rcall' = [rcall EXCEPT ![p].pc = "done", ![p].result = chainVal]
  /\ rhist' = [rhist EXCEPT !.lastDone = now]
  /\ UNCHANGED <<now, chainVal, xvars, kvars, avars, bvars, pvars, mvars, svars, tvars>>

\* Time passes.
Tick ==
  /\ now + TickMs <= MaxTicks * TickMs
  /\ now' = now + TickMs
  /\ UNCHANGED <<cache, rcall, rhist, chainVal, xvars, kvars, avars, bvars, pvars, mvars, svars, tvars>>

\* The registries' contents change.
ChainChange ==
  /\ chainVal < MaxVersion
  /\ chainVal' = chainVal + 1
  /\ UNCHANGED <<now, cache, rcall, rhist, xvars, kvars, avars, bvars, pvars, mvars, svars, tvars>>

RNext ==
  \/ \E p \in ResolverCallers : Resolve(p)
  \/ \E p \in ResolverCallers : ChainAnswered(p)
  \/ Tick
  \/ ChainChange

----------------------------------------------------------------------------
\* resolveAgentSecrets.

\* What an environment variable holds: nothing, the empty string, a plain
\* value, a secret reference "@secret:<name>", or a string that begins with
\* "@secret:" and is no reference ("@secret:" alone, or with a line break in
\* what follows).
EnvValues == {"unset", "empty", "plain", "ref", "malformed"}

\* What `openclaw secrets get <name> --raw` gives: a value, an empty output,
\* or a failure.
SecretOutcomes == {"value", "empty", "fail"}

\* A faulty parseSecretRef: nothing is a reference.
IsRefNever(v) == FALSE

\* rawX ? parseSecretRef(rawX) : null, as the truth of the reference found:
\* value.match(/^@secret:(.+)$/).
IsRef(v) == v = "ref"

\* The truth of rawX.
IsSet(v) == v \in {"plain", "ref", "malformed"}

\* resolveOpenClawSecret(name) for a variable that is a reference, null for
\* one that is not: the truth of what it resolves to.
Resolves(v, outcome) == IsRef(v) /\ outcome = "value"

IdleS == [pc |-> "idle", available |-> FALSE, pkOut |-> "fail", mnOut |-> "fail",
          source |-> "-", privateKey |-> "undefined", mnemonic |-> "undefined"]

SInit ==
  /\ env \in [AGENT_PRIVATE_KEY : EnvValues, AGENT_MNEMONIC : EnvValues]
  /\ scall = IdleS

SIdle ==
  /\ env = [AGENT_PRIVATE_KEY |-> "unset", AGENT_MNEMONIC |-> "unset"]
  /\ scall = IdleS

SReturn(r, source, privateKey, mnemonic) ==
  [r EXCEPT !.pc = "done", !.source = source, !.privateKey = privateKey,
            !.mnemonic = mnemonic]

\* OpenClaw unavailable or secret not found: return { source: 'keystore' }.
FallThrough(e) == "keystore"

\* The value of a raw variable as the 'env' result carries it.
Raw(v) == IF v = "unset" THEN "undefined" ELSE v

\* resolveAgentSecrets() up to its first await, or to its return when no
\* variable is a reference.
SStart ==
  /\ scall.pc = "idle"
  /\ scall' =
       IF IsRef(env.AGENT_PRIVATE_KEY) \/ IsRef(env.AGENT_MNEMONIC)
       THEN [scall EXCEPT !.pc = "version"]
       ELSE IF IsSet(env.AGENT_PRIVATE_KEY) \/ IsSet(env.AGENT_MNEMONIC)
       THEN SReturn(scall, "env", Raw(env.AGENT_PRIVATE_KEY), Raw(env.AGENT_MNEMONIC))
       ELSE SReturn(scall, "keystore", "undefined", "undefined")
  /\ UNCHANGED <<env, xvars, kvars, avars, bvars, pvars, mvars, rvars, tvars>>

\* isOpenClawAvailable() answers.
SAvailable(ok) ==
  /\ scall.pc = "version"
  /\ scall' = IF ok THEN [scall EXCEPT !.pc = "get", !.available = TRUE]
              ELSE SReturn(scall, FallThrough(env), "undefined", "undefined")
  /\ UNCHANGED <<env, xvars, kvars, avars, bvars, pvars, mvars, rvars, tvars>>

\* The secrets are fetched: Promise.all settles.
SResolved(pkOut, mnOut) ==
  /\ scall.pc = "get"
  /\ LET r == [scall EXCEPT !.pkOut = pkOut, !.mnOut = mnOut]
         pk == Resolves(env.AGENT_PRIVATE_KEY, pkOut)
         mn == Resolves(env.AGENT_MNEMONIC, mnOut)
     IN scall' =
          IF pk \/ mn
          THEN SReturn(r, "openclaw-secrets",
                       IF pk THEN "secret" ELSE "undefined",
                       IF mn THEN "secret" ELSE "undefined")
          ELSE SReturn(r, FallThrough(env), "undefined", "undefined")
  /\ UNCHANGED <<env, xvars, kvars, avars, bvars, pvars, mvars, rvars, tvars>>

SNext ==
  \/ SStart
  \/ \E ok \in BOOLEAN : SAvailable(ok)
  \/ \E a \in SecretOutcomes, b \in SecretOutcomes : SResolved(a, b)

KNext ==
  \/ \E p \in Callers, op \in {"init", "load", "exportMnemonic"} : KStart(p, op)
  \/ \E p \in Callers, w \in Seeds : InitExists(p, w)
  \/ \E p \in Callers : LoadReadKs(p)
  \/ \E p \in Callers : LoadReadEnt(p)
  \/ \E p \in Callers : LoadDecrypt(p)
  \/ \E p \in Callers, h \in Entropies : SaveMkdir(p, h)
  \/ \E p \in Callers : SaveWriteEnt(p)
  \/ \E p \in Callers : SaveChmodEnt(p)
  \/ \E p \in Callers : SaveEncrypt(p)
  \/ \E p \in Callers : SaveWriteKs(p)
  \/ \E p \in Callers : SaveChmodKs(p)

KeystoreInit == KInit /\ XInit /\ AIdle /\ BIdle /\ PIdle /\ MIdle /\ RIdle /\ SIdle /\ TIdle

KeystoreSpec == KeystoreInit /\ [][KNext]_vars

\* One boot after the other on storage that is empty at first, where a process
\* may stop at any await.
KStopNext ==
  \/ \E p \in Callers, op \in {"init", "load", "exportMnemonic"} : KStart(p, op)
  \/ \E p \in Callers, w \in Seeds : InitExists(p, w)
  \/ \E p \in Callers : LoadReadKs(p)
  \/ \E p \in Callers : LoadReadEnt(p)
  \/ \E p \in Callers : LoadDecrypt(p)
  \/ \E p \in Callers, h \in Entropies : SaveMkdir(p, h)
  \/ \E p \in Callers : SaveWriteEnt(p)
  \/ \E p \in Callers : SaveChmodEnt(p)
  \/ \E p \in Callers : SaveEncrypt(p)
  \/ \E p \in Callers : SaveWriteKs(p)
  \/ \E p \in Callers : SaveChmodKs(p)
  \/ \E p \in Callers : Stop(p)

KeystoreStopInit == KEmpty /\ XInit /\ AIdle /\ BIdle /\ PIdle /\ MIdle /\ RIdle /\ SIdle /\ TIdle

KeystoreStopSpec == KeystoreStopInit /\ [][KStopNext]_vars

\* init() calls of several processes on storage that is empty at first, their
\* file operations interleaved in any order.
KRaceNext ==
  \/ \E p \in Callers : InitConcurrently(p)
  \/ \E p \in Callers, w \in Seeds : InitExists(p, w)
  \/ \E p \in Callers : LoadReadKs(p)
  \/ \E p \in Callers : LoadReadEnt(p)
  \/ \E p \in Callers : LoadDecrypt(p)
  \/ \E p \in Callers, h \in Entropies : SaveMkdir(p, h)
  \/ \E p \in Callers : SaveWriteEnt(p)
  \/ \E p \in Callers : SaveChmodEnt(p)
  \/ \E p \in Callers : SaveEncrypt(p)
  \/ \E p \in Callers : SaveWriteKs(p)
  \/ \E p \in Callers : SaveChmodKs(p)

KeystoreRaceInit == KEmpty /\ XInit /\ AIdle /\ BIdle /\ PIdle /\ MIdle /\ RIdle /\ SIdle /\ TIdle

KeystoreRaceSpec == KeystoreRaceInit /\ [][KRaceNext]_vars

----------------------------------------------------------------------------

Next ==
  \/ \E c \in Calls, from \in Chains, to \in Chains, amt \in Amounts :
       TransferStart(c, from, to, amt)
  \/ \E c \in Calls, l \in Chains, s \in Chains : DirectImportStart(c, l, s)
  \/ \E c \in Calls : ExportBuild(c)
  \/ \E c \in Calls : ExportAccepted(c)
  \/ \E c \in Calls, e \in Rejections : ExportRejected(c, e)
  \/ \E c \in Calls : WaitDone(c)
  \/ \E c \in Calls : ImportQuery(c)
  \/ \E c \in Calls : ImportAccepted(c)
  \/ \E c \in Calls, e \in Rejections : ImportRejected(c, e)
  \/ \E id \in {o.id : o \in outs} : Expose(id)

Init == XInit /\ KIdle /\ AIdle /\ BIdle /\ PIdle /\ MIdle /\ RIdle /\ SIdle /\ TIdle

Spec == Init /\ [][Next]_vars

AgentInit == AConstructed /\ XInit /\ KIdle /\ BIdle /\ PIdle /\ MIdle /\ RIdle /\ SIdle /\ TIdle

AgentSpec == AgentInit /\ [][ANext]_vars

BalanceInit == BInit /\ XInit /\ KIdle /\ AIdle /\ PIdle /\ MIdle /\ RIdle /\ SIdle /\ TIdle

BalanceSpec == BalanceInit /\ [][BNext]_vars

X402Init == PIdle /\ XInit /\ KIdle /\ AIdle /\ BIdle /\ MIdle /\ RIdle /\ SIdle /\ TIdle

X402Spec == X402Init /\ [][PNext]_vars

McpInit == MInit /\ XInit /\ KIdle /\ AIdle /\ BIdle /\ PIdle /\ RIdle /\ SIdle /\ TIdle

McpSpec == McpInit /\ [][MNext]_vars

StdioInit == TInit /\ XInit /\ KIdle /\ AIdle /\ BIdle /\ PIdle /\ MIdle /\ RIdle /\ SIdle

StdioSpec == StdioInit /\ [][TNext]_vars

ResolverInit == RInit /\ XInit /\ KIdle /\ AIdle /\ BIdle /\ PIdle /\ MIdle /\ SIdle /\ TIdle

ResolverSpec == ResolverInit /\ [][RNext]_vars

SecretsInit == SInit /\ XInit /\ KIdle /\ AIdle /\ BIdle /\ PIdle /\ MIdle /\ RIdle /\ TIdle

SecretsSpec == SecretsInit /\ [][SNext]_vars

----------------------------------------------------------------------------
\* Properties of the settlement orchestrator.

Transfers == {c \in Calls : call[c].kind = "transfer"}
DirectImports == {c \in Calls : call[c].kind = "import"}

\* The transfer exported and then failed: its import primitive threw.
FailedAtImport(r) == r.kind = "transfer" /\ r.ph = "failed" /\ r.exportTxId # ""

\* The transfer failed in its export primitive.
FailedAtExport(r) ==
  r.kind = "transfer" /\ r.ph = "failed" /\ r.exportTxId = "" /\ r.from # r.to

\* The error names the transaction id, in its message or as its cause.
Carries(e, id) == e.cause = id \/ \E i \in 1..Len(e.msg) : e.msg[i] = id

\* C1: when a transfer's export succeeds and its import then fails, the error
\* delivered to the caller is a CrossChainError that carries the export
\* transaction identifier obtained from that export.
C1_ErrorCarriesExportTxId ==
  \A c \in Transfers :
    FailedAtImport(call[c]) =>
      /\ call[c].err.cls = "EvalancheError"
      /\ call[c].err.code = "CROSS_CHAIN_ERROR"
      /\ Carries(call[c].err, call[c].exportTxId)

\* C2: transfer returns {exportTxId, importTxId} only when both the export and
\* the import submission were accepted; in every other outcome it raises an
\* error and returns no result.
C2_ResultOnlyOnFullSuccess ==
  \A c \in Transfers :
    LET r == call[c] IN
      /\ r.result # << >> =>
           /\ r.ph = "done" /\ r.err = NoErr /\ Len(r.result) = 2
           /\ \E o \in outs : o.id = r.result[1] /\ o.src = r.from /\ o.dst = r.to
           /\ \E o \in outs : o.by = r.result[2] /\ o.st = "imported"
      /\ r.ph = "done" => r.result # << >>
      /\ r.ph = "failed" => r.result = << >> /\ r.err.cls = "EvalancheError"
      /\ r.err # NoErr => r.ph = "failed"

C2_Witness ==
  \E c, d \in Transfers :
    /\ call[c].ph = "done" /\ call[c].result # << >>
    /\ FailedAtImport(call[d])

\* The events of the log of r before position i.
Before(r, i, what, op) ==
  \E j \in 1..(i - 1) : r.log[j].ev = what /\ r.log[j].op = op

\* C3: within one transfer call the export submission completes before the
\* settling wait starts, and the settling wait completes before the import
\* primitive is invoked.
C3_ExportWaitImportOrder ==
  \A c \in Transfers :
    LET r == call[c] IN
      \A i \in 1..Len(r.log) :
        /\ r.log[i].ev = "call" /\ r.log[i].op = "wait" => Before(r, i, "ret", "export")
        /\ r.log[i].ev = "call" /\ r.log[i].op = "import" =>
             /\ Before(r, i, "ret", "wait")
             /\ Before(r, i, "ret", "export")
        /\ r.log[i].ev = "ret" /\ r.log[i].op = "wait" => Before(r, i, "call", "wait")
        /\ r.log[i].op = "export" => ~Before(r, i, "call", "import")

C3_Witness ==
  \E c \in Transfers :
    /\ call[c].ph = "done"
    /\ Len(call[c].log) = 6
    /\ call[c].log[5].op = "import" /\ call[c].log[3].op = "wait"

\* C4: if the export step fails the transfer ends in Failed with the underlying
\* error (the export primitive's own error, or an error wrapping it), and
\* neither the settling wait nor an import is invoked.
C4_ExportFailureStops ==
  \A c \in Transfers :
    LET r == call[c] IN
      FailedAtExport(r) =>
        /\ Len(r.log) = 1 /\ r.log[1].ev = "call" /\ r.log[1].op = "export"
        /\ r.importTxId = "" /\ r.saw = {}
        /\ r.thrown # NoErr
        /\ r.err.cls = "EvalancheError" /\ r.err.code = "CROSS_CHAIN_ERROR"
        /\ \/ r.err = r.thrown
           \/ /\ r.err.msg = <<"Cross-chain transfer failed", r.from, r.to,
                               MessageOf(r.thrown)>>
              /\ r.err.cause = CauseOf(r.thrown)
        /\ r.from # "C" => r.err.msg = <<"Failed to export from", r.from, r.to>>

C4_Witness ==
  \E c, d \in Transfers :
    /\ FailedAtExport(call[c]) /\ call[c].from = "C"
    /\ FailedAtExport(call[d]) /\ call[d].from # "C"
    /\ call[d].err.cause = "insufficient funds"

\* The outputs exported from s that ledger l exposes for import.
Pending(l, s) == {o \in outs : o.src = s /\ o.dst = l /\ o.st = "visible"}

OutIds(S) == {o.id : o \in S}

\* One step of a direct import, as claim C5 has it.
C5_Step ==
  \A c \in DirectImports :
    LET r == call[c]
        q == call'[c]
    IN /\ r.ph = "query" /\ q # r /\ Pending(r.to, r.from) # {} =>
            q.ph = "isubmit" /\ q.saw = OutIds(Pending(r.to, r.from))
       /\ r.ph = "isubmit" /\ q.ph = "failed" =>
            /\ q.err.msg = <<"Failed to import to", r.to, r.from>>
            /\ q.err.cause \in {"rejected by the ledger", "none"}
       /\ r.ph = "isubmit" /\ q.ph = "done" =>
            /\ q.result = <<q.importTxId>> /\ q.importTxId # ""
            /\ q.exportTxId = "" /\ OutIds(outs') = OutIds(outs)
            /\ \A l \in Chains \ {r.to} : bal'[l] = bal[l]
            /\ \A d \in Transfers :
                 FailedAtImport(call[d]) /\ call[d].exportTxId \in r.saw =>
                   /\ call[d].to = r.to /\ call[d].from = r.from
                   /\ bal'[r.to] >= bal[r.to] + call[d].amount
                   /\ \E o \in outs' : /\ o.id = call[d].exportTxId
                                       /\ o.st = "imported" /\ o.by = q.importTxId

Total == bal["C"] + bal["X"] + bal["P"] + SumAmt({o \in outs : o.st # "imported"})

\* The output of transfer r is pending on its destination ledger in the set S
\* of outputs: exported from r.from to r.to, imported by nobody.
PendingIn(S, r) ==
  \E o \in S : /\ o.id = r.exportTxId
               /\ o.src = r.from /\ o.dst = r.to /\ o.amt = r.amount
               /\ o.st \in {"hidden", "visible"} /\ o.by = ""

\* C6 as stated: whenever a transfer fails at the import stage after its export
\* succeeded, the funds it exported are pending atomic outputs on the
\* destination ledger, counted in neither balance, also when other transfers
\* or direct imports run concurrently.
C6_FundsPendingAfterImportFailure ==
  [][\A c \in Calls :
       ~FailedAtImport(call[c]) /\ FailedAtImport(call'[c]) =>
         PendingIn(outs', call'[c])]_vars

\* C6 as amended: such funds are pending atomic outputs on the destination
\* ledger, or another call's import of the same source on that ledger has
\* credited them to the destination; no amount is lost or counted twice.
C6_FundsPendingOrImportedByAnother ==
  /\ Total = 3 * InitBal
  /\ \A c \in Transfers :
       FailedAtImport(call[c]) =>
         \E o \in outs :
           /\ o.id = call[c].exportTxId
           /\ o.src = call[c].from /\ o.dst = call[c].to
           /\ o.amt = call[c].amount
           /\ \/ o.st \in {"hidden", "visible"} /\ o.by = ""
              \/ /\ o.st = "imported"
                 /\ \E d \in Calls \ {c} :
                      /\ call[d].importTxId = o.by
                      /\ call[d].to = o.dst /\ call[d].from = o.src

C6_Witness ==
  \E c \in Transfers : \E d \in Calls \ {c} :
    /\ FailedAtImport(call[c])
    /\ \E o \in outs : /\ o.id = call[c].exportTxId
                       /\ o.st = "imported" /\ o.by = call[d].importTxId

\* C7: the orchestrator accepts the six pairs of distinct ledgers and enters
\* Exporting for each; it rejects the three pairs with from = to before any
\* export, wait or import step.
C7_DirectionCompleteness ==
  \A c \in Transfers :
    LET r == call[c] IN
      /\ r.from = r.to =>
           /\ r.ph = "failed" /\ r.log = << >> /\ r.ip = 0
           /\ r.exportTxId = "" /\ r.importTxId = "" /\ r.result = << >>
           /\ r.err.cls = "EvalancheError"
           /\ r.err.msg = <<"Source and destination chains must be different">>
      /\ r.from # r.to =>
           /\ Len(r.log) >= 1 /\ r.log[1].ev = "call" /\ r.log[1].op = "export"
           /\ r.err.msg # <<"Source and destination chains must be different">>
           /\ r.thrown.msg # <<"Unsupported transfer direction">>

C7_Witness ==
  \E c, d \in Transfers :
    /\ call[c].from = call[c].to /\ call[c].ph = "failed"
    /\ call[d].from # call[d].to /\ call[d].ph = "build"

\* C8: a transfer invokes the export primitive of ledger `from` with the amount
\* and `to` as destination tag, then the import primitive of ledger `to` with
\* `from` as source, and the primitive of no other ledger.
C8_PrimitivesOfTheDirection ==
  \A c \in Transfers :
    LET r == call[c] IN
      /\ \A i \in 1..Len(r.log) :
           /\ r.log[i].op = "export" =>
                /\ r.log[i].ledger = r.from /\ r.log[i].arg = r.to
                /\ r.log[i].ev = "call" => r.log[i].amt = r.amount
           /\ r.log[i].op = "import" =>
                r.log[i].ledger = r.to /\ r.log[i].arg = r.from
           /\ r.log[i].op \in {"export", "import", "wait"}
      /\ Cardinality({i \in 1..Len(r.log) : r.log[i].ev = "call" /\ r.log[i].op = "export"}) <= 1
      /\ Cardinality({i \in 1..Len(r.log) : r.log[i].ev = "call" /\ r.log[i].op = "import"}) <= 1
      /\ r.exportTxId # "" =>
           \E o \in outs : /\ o.id = r.exportTxId /\ o.src = r.from
                           /\ o.dst = r.to /\ o.amt = r.amount
      /\ r.importTxId # "" =>
           \A o \in outs : o.by = r.importTxId => o.dst = r.to /\ o.src = r.from

C8_Witness ==
  \E c \in Transfers :
    /\ call[c].ph = "done" /\ call[c].from = "P" /\ call[c].to = "C"
    /\ call[c].log[1] = Ev("call", Export("P", "C"), call[c].amount)
    /\ call[c].log[5] = Ev("call", Import("C", "P"), 0)

----------------------------------------------------------------------------
\* Properties of the key material store.

IsInitReturn(h) == h.op = "init" /\ h.ok

\* What the init() calls that returned gave, in order.
InitReturns == SelectSeq(khist, IsInitReturn)

\* C9: for any number of sequential init() calls against a storage path that
\* holds no keystore record at first, the first returns isNew = true and every
\* later one isNew = false with the address of the first; on storage that can
\* be written every such call returns.
C9_IdempotentBoot ==
  ~kstart =>
    /\ \A i \in 1..Len(InitReturns) :
         /\ i = 1 => InitReturns[i].isNew
         /\ i > 1 => /\ ~InitReturns[i].isNew
                     /\ InitReturns[i].address = InitReturns[1].address
    /\ writable => \A i \in 1..Len(khist) : khist[i].op = "init" => khist[i].ok

C9_Witness ==
  /\ ~kstart /\ Len(InitReturns) = 3
  /\ InitReturns[1].isNew /\ ~InitReturns[2].isNew /\ ~InitReturns[3].isNew
  /\ InitReturns[3].address = Address(ksFile.seed)

InitSucceeded == \E i \in 1..Len(khist) : khist[i].op = "init" /\ khist[i].ok

\* One step of the store, as claim C10 has it.
C10_Step ==
  /\ InitSucceeded => ksFile' = ksFile /\ entFile' = entFile
  /\ ksFile' # ksFile \/ entFile' # entFile =>
       \E p \in Callers :
         /\ kcall[p].op = "init"
         /\ kcall[p].pc \in {"writeEnt", "chmodEnt", "writeKs", "chmodKs"}
  /\ ksFile.exists => ksFile'.exists
  /\ entFile.exists => entFile'.exists

\* C10: the keystore record and the entropy file are written only by the first
\* init() on a storage path; once an init() has succeeded no later init(),
\* load() or exportMnemonic() creates, rewrites or deletes either file.
C10_WrittenOnceByFirstInit == [][C10_Step]_vars

C10_Witness ==
  /\ Len(khist) = 3
  /\ khist[1].op = "init" /\ khist[1].ok /\ khist[1].isNew
  /\ khist[2].op \in {"load", "init"} /\ khist[2].ok
  /\ khist[3].op = "exportMnemonic" /\ khist[3].ok
  /\ ksFile.exists /\ entFile.exists /\ Address(ksFile.seed) = khist[1].address

\* The password load() derives from the entropy file as it is stored.
StoredPassword == DerivePassword(Trim(entFile).hex, Trim(entFile).nl)

\* C11: after a successful init(), load() decrypts the stored record with the
\* password derived from the stored entropy file and returns a seed whose
\* derived address equals the address that init() returned.
C11_LoadAfterInitRoundTrip ==
  /\ InitSucceeded =>
       /\ ksFile.exists /\ entFile.exists
       /\ FromEncryptedJson(ksFile, StoredPassword) = NoErr
  /\ \A i, j \in 1..Len(khist) :
       i < j /\ khist[i].op = "init" /\ khist[i].ok /\ khist[j].op = "load" =>
         /\ khist[j].ok
         /\ khist[j].address = khist[i].address
         /\ khist[j].address = Address(ksFile.seed)
         /\ khist[j].secret =
              IF ksFile.mn THEN Phrase(ksFile.seed) ELSE <<"key", ksFile.seed>>

C11_Witness ==
  /\ ~kstart /\ Len(khist) = 2
  /\ khist[1].op = "init" /\ khist[1].ok /\ khist[1].isNew
  /\ khist[2].op = "load" /\ khist[2].ok
  /\ khist[2].address = khist[1].address /\ khist[2].secret = Phrase(ksFile.seed)

\* C12: after init() returns successfully, both the keystore file and the
\* entropy file have owner-only read/write permissions (mode 0600), whatever
\* files existed at those paths before the call.
C12_OwnerOnlyAfterInit ==
  InitSucceeded => ksFile.mode = "0600" /\ entFile.mode = "0600"

\* What the operations that end in this step hand to their callers.
LoadResults == {khist'[i] : i \in (Len(khist) + 1)..Len(khist')}

\* One step of the store, as claim C13 has it.
C13_Step ==
  \A res \in LoadResults :
    res.op = "load" /\ (~entFile.exists \/ ~ksFile.exists \/ ksFile.pw = Corrupt) =>
      /\ ~res.ok /\ res.secret = << >> /\ res.address = << >>
      /\ res.err.cls = "EvalancheError" /\ res.err.code = "WALLET_ERROR"
      /\ res.err.msg = <<"Failed to load keystore">>
      /\ res.err.cause \in {"Entropy file missing", "invalid keystore JSON", "ENOENT"}

\* C13: load() fails with a KeyLoadError (an EvalancheError of code
\* WALLET_ERROR, "Failed to load keystore"), and returns no seed, if the
\* entropy file is missing or if the encrypted record is corrupt.
C13_LoadFailsWithoutEntropyOrRecord == [][C13_Step]_vars

C13_Witness ==
  /\ ksFile.exists /\ ksFile.pw # Corrupt /\ ~entFile.exists
  /\ Len(khist) = 1 /\ khist[1].op = "load" /\ ~khist[1].ok
  /\ khist[1].err = LoadCatch(GetPasswordCatch)

\* The errors load() can throw.
LoadErrors ==
  {LoadCatch(e) : e \in {GetPasswordCatch, RawError("ENOENT"),
                         RawError("invalid keystore JSON"), RawError("incorrect password")}}

\* C14 as stated: init() against a storage directory that cannot be written
\* fails with a StorageError, a kind of error the caller can tell apart from
\* a KeyLoadError, and reports no address.
C14_UnwritableInitFails ==
  ~writable =>
    \A i \in 1..Len(khist) :
      khist[i].op = "init" =>
        /\ ~khist[i].ok /\ khist[i].address = << >>
        /\ khist[i].err.cls = "EvalancheError"
        /\ khist[i].err \notin LoadErrors

\* C14 as amended: against a storage directory that cannot be written, an
\* init() that finds no keystore record fails with a StorageError ("Failed to
\* initialize agent keystore", caused by the file system's error), which
\* differs from every KeyLoadError, and reports no address; an init() that
\* finds a record writes nothing and returns the record's address, or fails
\* with the KeyLoadError of load().
C14_UnwritableInitFailsWithoutRecord ==
  ~writable =>
    \A i \in 1..Len(khist) :
      khist[i].op = "init" =>
        /\ ~kstart =>
             /\ ~khist[i].ok /\ khist[i].address = << >>
             /\ khist[i].err = EvalancheError(<<"Failed to initialize agent keystore">>,
                                               "WALLET_ERROR", "EACCES")
             /\ khist[i].err \notin LoadErrors
             /\ \A e \in LoadErrors : e.msg # khist[i].err.msg
             /\ ksFile = NoKs
        /\ kstart =>
             /\ khist[i].ok => ~khist[i].isNew /\ khist[i].address = Address(ksFile.seed)
             /\ ~khist[i].ok => khist[i].err \in LoadErrors /\ khist[i].address = << >>

C14_Witness ==
  /\ ~writable /\ ~kstart /\ Len(khist) = 2
  /\ khist[1].op = "init" /\ ~khist[1].ok
  /\ khist[1].err.msg = <<"Failed to initialize agent keystore">>
  /\ khist[2].op = "load" /\ ~khist[2].ok /\ khist[2].err \in LoadErrors

\* One step of the store, as claim C15 has it.
C15_Step ==
  \A res \in LoadResults :
    res.op = "exportMnemonic" =>
      /\ res.ok => ksFile.mn /\ res.secret = Phrase(ksFile.seed)
      /\ ksFile.exists /\ entFile.exists
           /\ FromEncryptedJson(ksFile, StoredPassword) = NoErr =>
             /\ ksFile.mn => res.ok /\ res.secret = Phrase(ksFile.seed)
             /\ ~ksFile.mn =>
                  /\ ~res.ok /\ res.secret = << >>
                  /\ res.err = EvalancheError(<<"Keystore does not contain a mnemonic">>,
                                               "WALLET_ERROR", "none")

\* C15: exportMnemonic() returns the plaintext mnemonic when the stored seed
\* is a mnemonic and fails with a NoMnemonicError when the stored seed is a
\* raw private key.
C15_MnemonicOrNoMnemonicError == [][C15_Step]_vars

C15_Witness ==
  /\ kstart /\ ~ksFile.mn /\ Len(khist) = 2
  /\ khist[1].op = "init" /\ khist[1].ok
  /\ khist[2].op = "exportMnemonic" /\ ~khist[2].ok /\ khist[2].err = NoMnemonic

----------------------------------------------------------------------------
\* Properties of the agent's multi-VM methods.

\* C16: for an agent constructed from a raw private key only, every
\* multi-ledger operation (transfer, X/P address derivation, X/P ledger
\* access, multi-chain balance, delegation) fails with
\* MultiLedgerUnavailableError (an EvalancheError of code INVALID_CONFIG,
\* "Multi-VM requires a mnemonic") before any network call is attempted, and
\* none returns an X or P address.
C16_NoMultiLedgerWithoutMnemonic ==
  ~agent.mnemonic =>
    /\ net = {} /\ ~agent.initialized
    /\ \A p \in AgentCallers : acall[p] = IdleA
    /\ agent.calls > 0 => ahist # {}
    /\ \A r \in ahist :
         /\ r.op \in AgentOps /\ ~r.ok
         /\ r.err.cls = "EvalancheError" /\ r.err.code = "INVALID_CONFIG"
         /\ r.err.msg = <<"Multi-VM requires a mnemonic (not just a private key)">>
         /\ r.X = NoAddress /\ r.P = NoAddress

C16_Witness ==
  /\ agent.privateKey /\ ~agent.mnemonic /\ agent.calls = 2
  /\ \E r, q \in ahist : r.op = "transfer" /\ q.op = "getAddresses" /\ ~r.ok /\ ~q.ok

----------------------------------------------------------------------------
\* Properties of the ledger primitives.

\* One step of an export, as claim C17 has it.
C17_Step ==
  \A c \in Calls :
    LET r == call[c]
        q == call'[c]
    IN r.ph = "build" /\ q # r /\ CurStep(r).ledger # "C"
         /\ r.amount > bal[CurStep(r).ledger] =>
           /\ q.ph = "failed" /\ q.exportTxId = "" /\ q.result = << >>
           /\ q.err = EvalancheError(<<"Failed to export from", r.from, r.to>>,
                                     "CROSS_CHAIN_ERROR", "insufficient funds")
           /\ q.log = r.log /\ Len(q.log) = 1
           /\ nextTx' = nextTx /\ outs' = outs /\ bal' = bal

C18_Step ==
  \A c \in Calls :
    LET r == call[c]
        q == call'[c]
    IN /\ r.ph = "isubmit" => r.saw # {}
       /\ r.ph = "query" /\ q # r /\ Pending(r.to, r.from) = {} =>
            /\ q.ph = "failed" /\ q.importTxId = "" /\ q.saw = {} /\ q.result = << >>
            /\ nextTx' = nextTx /\ outs' = outs /\ bal' = bal
            /\ q.err.cls = "EvalancheError" /\ q.err.code = "CROSS_CHAIN_ERROR"
            /\ r.to # "C" =>
                 /\ q.err.msg = <<"Failed to import to", r.to, r.from>>
                 /\ q.err.cause = "No atomic UTXOs available for import"
            /\ r.to = "C" =>
                 /\ q.err.msg = <<"Cross-chain transfer failed", r.from, r.to,
                                  "No atomic UTXOs available for C-Chain import">>
                 /\ q.err.cause = "No atomic UTXOs available for C-Chain import"

\* C18: an import on any of the three ledgers, when no atomic outputs from the
\* named source ledger are pending for the agent, fails with
\* NothingToImportError ("No atomic UTXOs available ...") and builds, signs
\* and submits no transaction.
C18_NothingToImport == [][C18_Step]_vars

C18_Witness ==
  \E c \in Transfers, d \in DirectImports :
    /\ call[c].to = "C" /\ FailedAtImport(call[c])
    /\ call[c].err.cause = "No atomic UTXOs available for C-Chain import"
    /\ call[d].ph = "failed"
    /\ call[d].err.cause = "No atomic UTXOs available for import"

\* The outputs the step consumes.
Consumed == {o \in outs : o.st # "imported" /\ \E x \in outs' : x.id = o.id /\ x.st = "imported"}

\* One step of an import, as claim C19 has it.
C19_Step ==
  \A c \in Calls :
    LET r == call[c]
        q == call'[c]
    IN /\ r.ph = "query" /\ q.ph = "isubmit" =>
            q.saw = OutIds({o \in outs : o.dst = r.to /\ o.src = r.from /\ o.st = "visible"})
       /\ r.ph = "isubmit" /\ q.importTxId # "" =>
            /\ OutIds(Consumed) = r.saw /\ Consumed # {}
            /\ \A o \in Consumed : o.src = r.from /\ o.dst = r.to /\ o.st = "visible"
            /\ \A x \in outs' : x.id \in r.saw => x.by = q.importTxId
            /\ \A o \in outs : o.id \notin r.saw => o \in outs'
            /\ nextTx' = nextTx + 1
            /\ bal' = [bal EXCEPT ![r.to] = @ + SumAmt(Consumed)]

\* C19: a successful import consumes, in a single import transaction, all
\* atomic outputs that were exported from the named source ledger and are
\* addressed to the agent at the time of the query, and none exported from
\* any other source ledger.
C19_ImportConsumesAllOfTheSource == [][C19_Step]_vars

C19_Witness ==
  \E c \in Transfers :
    /\ call[c].ph = "done"
    /\ Cardinality({o \in outs : o.st = "imported" /\ o.by = call[c].importTxId}) = 2

\* The number of the agent's outputs of the native asset that hold amount n.
NativeCount(n) ==
  Cardinality({i \in 1..Len(utxos) :
                 /\ utxos[i].assetId = AvaxAssetID
                 /\ utxos[i].hasAmount /\ utxos[i].amount = n})

\* The sum of the amounts of the agent's outputs of the native asset.
NativeTotal ==
  LET W[n \in 0..MaxAmount] == IF n = 0 THEN 0 ELSE W[n - 1] + n * NativeCount(n)
  IN W[MaxAmount]

\* C20: getBalance() on a UTXO ledger returns exactly the sum of the amounts
\* of the agent's unspent outputs whose asset identifier equals the ledger's
\* native asset, ignoring outputs of other assets; for an empty output set it
\* returns 0 and does not fail.
C20_BalanceIsNativeSum ==
  /\ gcall.pc = "done" =>
       /\ gcall.total = NativeTotal /\ gcall.err = NoErr
       /\ utxos = << >> => gcall.total = 0
       /\ (\A i \in 1..Len(utxos) : utxos[i].assetId # AvaxAssetID) => gcall.total = 0
  /\ gcall.pc = "failed" =>
       /\ gcall.thrown # NoErr
       /\ gcall.err = GetBalanceCatch(gcall.ledger, gcall.thrown)
  /\ gcall.thrown = NoErr /\ gcall.pc # "idle" => gcall.pc \in {"getUTXOs", "done"}

C20_Witness ==
  /\ gcall.pc = "done" /\ gcall.ledger = "P" /\ Len(utxos) = 2
  /\ utxos[1].assetId = "OTHER" /\ utxos[1].hasAmount
  /\ utxos[2].assetId = AvaxAssetID /\ utxos[2].hasAmount
  /\ gcall.total = utxos[2].amount

----------------------------------------------------------------------------
\* Properties of the fee lookup, of error propagation and of concurrent calls.

\* The error e comes from a rejected getFeeData, wrapped or not.
FeeLookupFailed(e) ==
  \/ e.cause = "getFeeData failed"
  \/ \E i \in DOMAIN e.msg : e.msg[i] = "getFeeData failed"

C22_FailuresAreTyped ==
  \A r \in ahist : ~r.ok => r.err.cls = "EvalancheError"

\* Two calls that are transfers out of the same UTXO ledger and whose exports
\* selected a common unspent output.
Overlapping(c, d) ==
  /\ c # d
  /\ call[c].kind = "transfer" /\ call[d].kind = "transfer"
  /\ call[c].from = call[d].from /\ call[c].from \in {"X", "P"}
  /\ call[c].sel \cap call[d].sel # {}

\* The export of call c was rejected and the call ended there: the caller has
\* the export's cross-chain error, and no import was attempted.
LostExport(c) ==
  /\ call[c].ph = "failed"
  /\ call[c].err.cls = "EvalancheError" /\ call[c].err.code = "CROSS_CHAIN_ERROR"
  /\ call[c].err.msg = <<"Failed to export from", call[c].from, call[c].to>>
  /\ call[c].err.cause \in {"rejected by the ledger", "none"}
  /\ call[c].ip = 1 /\ call[c].saw = {}
  /\ call[c].exportTxId = "" /\ call[c].importTxId = ""

C24_NoStateAcrossCalls ==
  [][\A p \in AgentCallers :
       acall[p].pc = "import" /\ ~up /\ acall'[p] # acall[p] =>
         /\ acall'[p] = IdleA
         /\ \E r \in ahist' :
              r.op = acall[p].op /\ ~r.ok /\ r.err.code = "NETWORK_ERROR"]_vars

----------------------------------------------------------------------------
\* Properties of payAndFetch.

\* The number an amount string denotes, in tenths of 10^-18.
Value10(a) == a.wei * 10 + a.sub

\* The amount the 402 response requires is above maxPayment.
Exceeds(a, m) == a.kind = "dec" /\ m.kind = "dec" /\ Value10(a) > Value10(m)

\* C25 as stated: when the amount required by the 402 response exceeds
\* maxPayment, payAndFetch signs and sends no proof and fails with the
\* payment-exceeded error.
C25_ExceededErrorAboveMax ==
  Exceeds(pay.requirements, pay.maxPayment) =>
    /\ proofs = 0
    /\ pay.pc = "failed" /\ pay.err.code = "X402_PAYMENT_EXCEEDED"

\* C25 amended: payAndFetch never signs or sends a proof for a required amount
\* above maxPayment, and an amount equal to maxPayment is not refused as
\* exceeding; the call fails with the payment-exceeded error when parseEther
\* accepts both amounts, and with the payment-failed error when it rejects one
\* of them (more than 18 fraction digits).
C25_NeverPaysAboveMax ==
  LET a == pay.requirements
      m == pay.maxPayment
  IN /\ \A i \in DOMAIN http :
          http[i].proof # NoProof => http[i].proof = Proof(a) /\ ~Exceeds(a, m)
     /\ proofs > 0 \/ pay.pc \in {"sign", "fetch2", "text2"} => ~Exceeds(a, m)
     /\ Exceeds(a, m) =>
          /\ pay.pc = "failed" /\ proofs = 0 /\ Len(http) = 1
          /\ pay.paymentHash = NoProof
          /\ pay.err.code = IF ParseEtherOk(a) /\ ParseEtherOk(m)
                            THEN "X402_PAYMENT_EXCEEDED" ELSE "X402_PAYMENT_FAILED"
     /\ pay.err.code = "X402_PAYMENT_EXCEEDED" => Exceeds(a, m)

C25_Witness ==
  /\ Exceeds(pay.requirements, pay.maxPayment)
  /\ pay.requirements.sub = 0 /\ pay.maxPayment.sub = 0
  /\ pay.first = 402 /\ pay.pc = "failed"
  /\ pay.err.code = "X402_PAYMENT_EXCEEDED" /\ proofs = 0

\* C26: a payAndFetch call sends at most two HTTP requests and signs at most
\* one proof; a first response other than 402 is returned as it is, with no
\* payment hash and nothing signed; a 402 leads to exactly one retry, which
\* carries the proof, and the retry's response is returned whatever its
\* status, a second 402 included.
C26_AtMostOneRetry ==
  /\ Len(http) <= 2 /\ proofs <= 1
  /\ Len(http) >= 1 => http[1].proof = NoProof
  /\ Len(http) = 2 =>
       /\ pay.first = 402 /\ proofs = 1
       /\ http[2].proof = pay.proof /\ pay.proof = Proof(pay.requirements)
  /\ pay.pc \notin {"idle", "fetch1"} /\ pay.first # 402 =>
       /\ proofs = 0 /\ Len(http) = 1 /\ pay.proof = NoProof
       /\ pay.pc \in {"text1", "done", "failed"}
       /\ pay.status = pay.first
  /\ pay.pc = "done" =>
       IF pay.first # 402
       THEN pay.status = pay.first /\ pay.paymentHash = NoProof
       ELSE /\ Len(http) = 2 /\ proofs = 1
            /\ pay.paymentHash = http[2].proof
            /\ pay.status \in Statuses

C26_Witness ==
  /\ pay.pc = "done" /\ pay.first = 402 /\ pay.status = 402
  /\ Len(http) = 2 /\ proofs = 1 /\ pay.paymentHash = http[2].proof
  /\ pay.paymentHash # NoProof

----------------------------------------------------------------------------
\* Properties of the MCP server.

\* C27: the MCP server answers every request with a response that carries the
\* request's id; an unknown method gives JSON-RPC error -32601, an unknown
\* tool error -32602, and a known tool that throws gives a result marked
\* isError rather than a JSON-RPC error.
C27_EveryRequestAnswered ==
  LET q == mout.req
      r == mout.resp
  IN q # NoRequest /\ q.method # "notifications/initialized" =>
       /\ r.kind \in {"result", "error"} /\ r.id = q.id
       /\ q.method \notin Methods \ {"unknown/method"} => r = Err(q.id, -32601)
       /\ q.tool = "nonexistent_tool" => r = Err(q.id, -32602)
       /\ mout.threw => r = OkIsError(q.id)

\* C28: over any sequence of switch_network calls the address of the MCP
\* server's agent never changes; a successful switch puts the agent on the
\* named network, and a switch that names an unknown network leaves the
\* configuration and the agent as they were.
C28_SwitchKeepsAddress ==
  [][/\ server'.agent.address = server.agent.address
     /\ server'.config.key = server.config.key
     /\ \A q \in Requests :
          MRequest(q) /\ q.tool = "switch_network" =>
            IF q.network \in Networks
            THEN /\ server'.config.network = q.network
                 /\ server'.agent.network = q.network
                 /\ mout'.resp = Written(q, Ok(q.id))
            ELSE server' = server]_vars

----------------------------------------------------------------------------
\* Properties of the identity cache.

\* Caller p calls resolve() in this step.
ResolveCalled(p) == rcall[p].pc \in {"idle", "done"} /\ rcall'[p] # rcall[p]

\* The call of p is answered from the cache, with no registry call.
AnsweredFromCache(p) ==
  /\ rcall'[p].pc = "done" /\ rcall'[p].fromCache
  /\ cache.has /\ rcall'[p].result = cache.value
  /\ cache' = cache

C29_Step ==
  \A p \in ResolverCallers :
    ResolveCalled(p) =>
      IF rhist.lastDone >= 0 /\ now - rhist.lastDone <= TtlMs
      THEN AnsweredFromCache(p)
      ELSE /\ rcall'[p].pc = "chain" /\ ~rcall'[p].fromCache
           /\ ~cache'.has

----------------------------------------------------------------------------
\* Properties of resolveAgentSecrets.

\* The sources that can supply credentials, given what OpenClaw answered.
OpenClawSupplies ==
  /\ scall.available
  /\ \/ Resolves(env.AGENT_PRIVATE_KEY, scall.pkOut)
     \/ Resolves(env.AGENT_MNEMONIC, scall.mnOut)

EnvSupplies ==
  \/ env.AGENT_PRIVATE_KEY \in {"plain", "malformed"}
  \/ env.AGENT_MNEMONIC \in {"plain", "malformed"}

\* C30: resolveAgentSecrets returns the credentials of the highest-priority
\* source that can supply them (OpenClaw secrets, then the raw environment
\* variables, then the keystore with no keys), for every combination of the
\* two variables being unset, a plain value or a secret reference.
C30_HighestPrioritySource ==
  scall.pc = "done" =>
    scall.source = IF OpenClawSupplies THEN "openclaw-secrets"
                   ELSE IF EnvSupplies THEN "env"
                   ELSE "keystore"


----------------------------------------------------------------------------
\* Properties of init() against a record it cannot use.

\* The record on disk cannot be decrypted: its entropy file is missing, or
\* Wallet.fromEncryptedJson rejects it.
Undecryptable ==
  /\ ksFile.exists
  /\ \/ ~entFile.exists
     \/ FromEncryptedJson(ksFile, StoredPassword) # NoErr

\* One step of the store, as claim C33 has it.
C33_Step ==
  Undecryptable =>
    /\ ksFile' = ksFile /\ entFile' = entFile
    /\ \A p \in Callers : kcall'[p].seed = 0 /\ kcall'[p].pc # "mkdir"
    /\ \A res \in LoadResults :
         res.op = "init" =>
           /\ ~res.ok /\ res.address = << >>
           /\ res.err.cls = "EvalancheError" /\ res.err.code = "WALLET_ERROR"
           /\ res.err.msg = <<"Failed to load keystore">>

\* C33: init() never replaces an existing keystore record: if the keystore
\* file exists but cannot be decrypted (entropy file missing or record
\* corrupt), init() fails, generates no new seed, and leaves every file in the
\* storage directory unchanged.
C33_InitNeverReplaces == [][C33_Step]_vars

C33_Witness ==
  /\ kstart /\ Undecryptable /\ Len(khist) = 2
  /\ khist[1].op = "init" /\ ~khist[1].ok
  /\ khist[2].op = "init" /\ ~khist[2].ok
  /\ \/ ksFile.pw = Corrupt /\ entFile.exists
     \/ ksFile.pw # Corrupt /\ ~entFile.exists


----------------------------------------------------------------------------
\* Properties of the store's files while init() runs.

\* The record on disk can be decrypted with the password derived from the
\* entropy file on disk.
Decryptable ==
  /\ ksFile.exists /\ entFile.exists
  /\ FromEncryptedJson(ksFile, StoredPassword) = NoErr

\* C31: when two init() calls run concurrently against the same initially
\* empty storage path, then under every interleaving of their file operations
\* the keystore record left on disk is decryptable with the password derived
\* from the entropy file left on disk, and every call that returned
\* successfully reported the address of that persisted record.
C31_ConcurrentInitConsistent ==
  Running = {} /\ ksFile.exists =>
    /\ Decryptable
    /\ \A i \in 1..Len(khist) :
         khist[i].op = "init" /\ khist[i].ok => khist[i].address = Address(ksFile.seed)

\* C39: at every point during a single init() on an empty storage path,
\* including if the process stops between any two file operations, a keystore
\* file that exists on disk is accompanied by an entropy file whose derived
\* password decrypts it, and a later init() after such a stop still succeeds.
C39_RecordNeverWithoutItsEntropy ==
  /\ ksFile.exists => Decryptable
  /\ writable =>
       \A i \in 1..Len(khist) : khist[i].op = "init" => khist[i].ok

\* The process stopped between writeFile(keystorePath) and its chmod, and the
\* next boot loaded the record.
C39_Witness ==
  /\ ~kstart /\ Len(khist) = 2
  /\ khist[1] = Stopped
  /\ khist[2].op = "init" /\ khist[2].ok /\ ~khist[2].isNew
  /\ Decryptable /\ khist[2].address = Address(ksFile.seed)


----------------------------------------------------------------------------
\* Properties of what a returned transfer has moved.

\* The import transaction of call c consumed the output its export created.
OwnOutputImported(c) ==
  \E o \in outs : /\ o.id = call[c].exportTxId
                  /\ o.st = "imported" /\ o.by = call[c].importTxId

\* C32: when transfer returns successfully, the outputs created by that
\* call's export transaction have been consumed by that call's import
\* transaction, so the requested amount has arrived on the destination
\* ledger; this holds even if older pending atomic outputs from the same
\* source already existed or the new outputs were not yet visible when the
\* settling wait ended.
C32_ReturnedTransferArrived ==
  \A c \in Calls :
    call[c].kind = "transfer" /\ call[c].ph = "done" => OwnOutputImported(c)


----------------------------------------------------------------------------
\* Properties of the work one transfer does.

\* How many times call r began primitive op.
Attempts(r, op) ==
  Cardinality({i \in 1..Len(r.log) : r.log[i].ev = "call" /\ r.log[i].op = op})

Finished(r) == r.ph \in {"done", "failed"}

\* One step of the orchestrator, as claim C34 has it.
C34_Step ==
  \A c \in Calls :
    /\ call'[c].kind = "transfer" =>
         /\ Attempts(call'[c], "export") <= 1
         /\ Attempts(call'[c], "wait") <= 1
         /\ Attempts(call'[c], "import") <= 1
         /\ call'[c].exportTxId = "" => Attempts(call'[c], "import") = 0
    /\ call[c].kind = "transfer" /\ Finished(call[c]) => call'[c] = call[c]

\* C34: each transfer call submits at most one export transaction and makes
\* at most one import attempt, with no retry or polling, and no step of the
\* call is still running after the call has returned or raised.
C34_OneExportOneImport == [][C34_Step]_vars

C34_Witness ==
  \E c, d \in Calls :
    /\ call[c].kind = "transfer" /\ call[c].ph = "failed"
    /\ Attempts(call[c], "export") = 1 /\ Attempts(call[c], "import") = 1
    /\ call[c].exportTxId # "" /\ call[c].importTxId = ""
    /\ call[d].kind = "transfer" /\ call[d].ph = "done"
    /\ Attempts(call[d], "export") = 1 /\ Attempts(call[d], "import") = 1
    /\ \E o \in outs : o.st = "visible"


----------------------------------------------------------------------------
\* Properties of the agent's keys.

\* C35: for every agent configuration, including one that supplies both a
\* private key and a mnemonic, the C address the agent reports and the key
\* used to sign its X/P and C-ledger export/import transactions derive from
\* the same secret.
C35_OneSecretForAllLedgers ==
  \A r \in ahist :
    r.op = "getAddresses" /\ r.ok =>
      /\ r.C = EvmAddress(SignerKeyC)
      /\ r.X = GetCurrentAddress("X") /\ r.P = GetCurrentAddress("P")


----------------------------------------------------------------------------
\* Properties of delegate.

\* The delegations handed to addDelegator and not yet answered.
Delegating == {p \in AgentCallers : acall[p].op = "delegate" /\ acall[p].pc = "net"}

----------------------------------------------------------------------------
\* Properties of what resolveAgentSecrets returns.

----------------------------------------------------------------------------
\* Properties of the stdio transport.

\* The complete lines of the input, in order.
InputLines == SplitLines(input, << >>, << >>).lines

\* How many response lines carry id i and are no parse error.
Answers(i) ==
  Cardinality({j \in 1..Len(stdout) : stdout[j].id = i /\ stdout[j] # ParseError})

ParseErrors == Cardinality({j \in 1..Len(stdout) : stdout[j] = ParseError})

\* Everything has arrived and every handler has ended.
Quiet == pos = Len(input) /\ handlers = {}

\* C38: in stdio mode, under any splitting of the input stream into chunks,
\* every complete non-notification request line produces exactly one response
\* line with that request's id, every notification line produces none, and
\* every unparsable line produces exactly one -32700 error.
C38_OneResponsePerLine ==
  /\ \A i \in 1..Len(InputLines) : Answers(i) <= 1
  /\ Quiet =>
       /\ \A i \in 1..Len(InputLines) :
            LET k == InputLines[i][1].kind
            IN /\ k \in {"initialize", "get_balance", "noparams"} => Answers(i) = 1
               /\ k \in {"notification", "junk"} => Answers(i) = 0
       /\ ParseErrors =
            Cardinality({i \in 1..Len(InputLines) : InputLines[i][1].kind = "junk"})

====
